---- MODULE Spec2Model ----
(***************************************************************************)
(* Model of the live-synchronisation layer of the supervisor dashboard:    *)
(* the interval pollers (service logs, supervisor logs, security scan,     *)
(* status), the views that own them, and the streaming chat consumer.      *)
(*                                                                         *)
(* JavaScript handlers run to completion, so each handler (and each        *)
(* continuation after an await) is one atomic action.  A value of 0        *)
(* stands for null in the variables that hold a timer handle.              *)
(***************************************************************************)
EXTENDS Integers, Sequences, FiniteSets, Bags, TLC

\* ------------------------------------------------------------------ bounds
MaxTimerId == 4
MaxInFlight == 1
MaxCalls == 2
MaxFrames == 2
MaxLines == 3
MaxSessions == 2
MaxReads == 1
MaxOnboards == 1
MaxLog == 5
MaxFetches == 2
MaxIssued == 3
MaxPoints == 3
MaxStep == 4
MaxScanCalls == 2

\* --------------------------------------------------------------- constants
Services == {"a"}
\* The tabs the user switches between; "jobs" and "caddy" load their own
\* list exactly as "cron" does (SwitchTabCalls covers all five).
Tabs == {"home", "cron", "logs"}
PollerNames == {"service-logs", "supervisor-logs", "security-scan"}
\* The two scrolling log views, by element id.
Views == {"logs-content", "supervisor-logs"}
\* The refresh operations; securityTick is the callback of startSecurityPoll.
Charts == {"cpu-chart", "memory-chart", "disk-chart"}
ScanServices == {"a", "b"}
RefreshOps == {"updateStatus", "refreshServiceLogs", "loadSupervisorLogs",
               "refreshMetrics", "securityTick"}

VARIABLES
    \* window timers
    timers,                  \* live interval timers: [id, name, arg]
    nextTimerId,             \* handle the next setInterval returns
    logsInterval,            \* monitoring.js:7
    supervisorLogsInterval,  \* monitoring.js:95
    securityPollInterval,    \* services.js:191
    statusInterval,          \* part_001:13
    \* DOM state
    logsLive,                \* #logs-live checked
    supervisorLogsLive,      \* #supervisor-logs-live checked
    loaded,                  \* DOMContentLoaded has run
    tab,                     \* the tab shown
    logsModalHidden,         \* #logs-modal has class hidden
    securityModalHidden,     \* #security-modal has class hidden
    currentService,          \* part_001:10 ("" is null)
    logsContent,             \* what #logs-content shows
    supervisorLogsContent,   \* what #supervisor-logs shows
    scanBtnDisabled,         \* #scan-btn disabled
    inflight,                \* bag of requests awaiting their response
    switchCalls,             \* calls made by the latest switchTab, in order
    \* direct start/stop calls (PollerSpec)
    startCalls, stopCalls, lastCall,
    \* one response body read chunk by chunk (StreamSpec)
    stream,                  \* the characters the server sends
    unread,                  \* the characters not yet returned by reader.read()
    consumer,                \* responseContent and #chat-messages of the reader
    \* chat panel (ChatSpec)
    chatAbortController,     \* part_002:6 (0 is null, else the session it belongs to)
    chatLoading,             \* setChatLoading: send button bound to stopChat, input disabled
    sessions,                \* the sendChatMessage calls: pc, signal, responseContent
    messages,                \* children of #chat-messages: [id, role, content]
    onboards,                \* onboardProject calls awaiting a response
    \* log views (ViewerSpec)
    logsUserScrolled,            \* monitoring.js:8
    supervisorLogsUserScrolled,  \* monitoring.js:96
    scrollTop,               \* scrollTop of #logs-content and of #supervisor-logs
    scrollEvents,            \* the views with a scroll event queued
    serverLog,               \* number of log lines the server has written
    fetches,                 \* log requests awaiting their response
    issued,                  \* number of log requests issued so far
    \* refresh operations and their views (RefreshSpec)
    pending,                 \* refresh operations awaiting api()
    shown,                   \* what the view owning each operation shows
    console,                 \* operations that wrote to console.error
    uncaught,                \* operations whose error left the function
    \* metrics charts (ChartSpec)
    metrics,                 \* the samples GET .../metrics returns
    canvas,                  \* what each chart canvas shows
    \* security modal (SecuritySpec)
    securityTitle,           \* text of #security-title
    scanStatus,              \* text of #scan-status: its kind and the service it reports
    securityFindings,        \* service whose findings are shown ("": the placeholder)
    scans                    \* server side: the status of each service's latest scan

timerVars == <<timers, nextTimerId, logsInterval, supervisorLogsInterval,
               securityPollInterval, statusInterval>>
domVars == <<logsLive, supervisorLogsLive, loaded, tab, logsModalHidden,
             securityModalHidden, currentService, logsContent,
             supervisorLogsContent, scanBtnDisabled, inflight, switchCalls>>
callVars == <<startCalls, stopCalls, lastCall>>
streamVars == <<stream, unread, consumer>>
chatVars == <<chatAbortController, chatLoading, sessions, messages, onboards>>
viewVars == <<logsUserScrolled, supervisorLogsUserScrolled, scrollTop,
              scrollEvents, serverLog, fetches, issued>>
refreshVars == <<pending, shown, console, uncaught>>
chartVars == <<metrics, canvas>>
securityVars == <<securityTitle, scanStatus, securityFindings, scans>>
pageVars == <<viewVars, refreshVars, chartVars, securityVars>>
vars == <<timerVars, domVars, callVars, streamVars, chatVars, pageVars>>

\* ------------------------------------------------------------------ timers
\* The timer state the start/stop functions read and write.
TS == [timers |-> timers, nextTimerId |-> nextTimerId,
       logsInterval |-> logsInterval,
       supervisorLogsInterval |-> supervisorLogsInterval,
       securityPollInterval |-> securityPollInterval]

SetTS(q) ==
    /\ timers' = q.timers
    /\ nextTimerId' = q.nextTimerId
    /\ logsInterval' = q.logsInterval
    /\ supervisorLogsInterval' = q.supervisorLogsInterval
    /\ securityPollInterval' = q.securityPollInterval

clearIntervalAll(ts, id) ==
    [ts EXCEPT !.timers = {}]

clearInterval(ts, id) ==
    [ts EXCEPT !.timers = {t \in @ : t.id # id}]

\* The handle returned is ts.nextTimerId (handles are never reused).
setInterval(ts, name, arg) ==
    [ts EXCEPT !.timers = @ \cup {[id |-> ts.nextTimerId, name |-> name, arg |-> arg]},
               !.nextTimerId = @ + 1]

\* stopLogsInterval forgetting the handle without clearing the timer.
stopLogsIntervalNoClear(ts) ==
    [ts EXCEPT !.logsInterval = 0]

stopLogsInterval(ts) ==
    IF ts.logsInterval # 0
    THEN [clearInterval(ts, ts.logsInterval) EXCEPT !.logsInterval = 0]
    ELSE ts

\* startLogsInterval scheduling without looking at the checkbox.
startLogsIntervalUnchecked(ts, checked) ==
    LET s == stopLogsInterval(ts) IN
    [setInterval(s, "service-logs", "") EXCEPT !.logsInterval = s.nextTimerId]

startLogsIntervalNoStop(ts, checked) ==
    IF checked
    THEN [setInterval(ts, "service-logs", "") EXCEPT !.logsInterval = ts.nextTimerId]
    ELSE ts

startLogsInterval(ts, checked) ==
    LET s == stopLogsInterval(ts) IN
    IF checked
    THEN [setInterval(s, "service-logs", "") EXCEPT !.logsInterval = s.nextTimerId]
    ELSE s

stopSupervisorLogsIntervalNoClear(ts) ==
    [ts EXCEPT !.supervisorLogsInterval = 0]

stopSupervisorLogsInterval(ts) ==
    IF ts.supervisorLogsInterval # 0
    THEN [clearInterval(ts, ts.supervisorLogsInterval) EXCEPT !.supervisorLogsInterval = 0]
    ELSE ts

startSupervisorLogsInterval(ts, checked) ==
    LET s == stopSupervisorLogsInterval(ts) IN
    IF checked
    THEN [setInterval(s, "supervisor-logs", "") EXCEPT !.supervisorLogsInterval = s.nextTimerId]
    ELSE s

stopSecurityPoll(ts) ==
    IF ts.securityPollInterval # 0
    THEN [clearInterval(ts, ts.securityPollInterval) EXCEPT !.securityPollInterval = 0]
    ELSE ts

startSecurityPoll(ts, name) ==
    LET s == stopSecurityPoll(ts) IN
    [setInterval(s, "security-scan", name) EXCEPT !.securityPollInterval = s.nextTimerId]

TimersOf(name) == {t \in timers : t.name = name}
CanSetInterval == nextTimerId <= MaxTimerId

\* -------------------------------------------------------------------- text
\* A text is the sequence of its characters.
NL == "\n"
Q == "\""
DataPrefix == <<"d", "a", "t", "a", ":", " ">>
ErrorPrefix == <<"E", "r", "r", "o", "r", ":", " ">>
Undefined == <<"u", "n", "d", "e", "f", "i", "n", "e", "d">>
Whitespace == {" ", NL}

\* String.prototype.split on one separator character: the pieces between
\* the separators, one more piece than there are separators.
Split(s, sep) ==
    LET at == {i \in 1..Len(s) : s[i] = sep}
        nth(k) == CHOOSE i \in at : Cardinality({j \in at : j < i}) = k - 1
        from(k) == IF k = 1 THEN 1 ELSE nth(k - 1) + 1
        to(k) == IF k = Cardinality(at) + 1 THEN Len(s) ELSE nth(k) - 1
    IN  [k \in 1..(Cardinality(at) + 1) |-> SubSeq(s, from(k), to(k))]

StartsWith(s, prefix) ==
    Len(s) >= Len(prefix) /\ SubSeq(s, 1, Len(prefix)) = prefix

\* String.prototype.slice(n)
Slice(s, n) == SubSeq(s, n + 1, Len(s))

RECURSIVE TrimStart(_)
TrimStart(s) ==
    IF s # <<>> /\ Head(s) \in Whitespace THEN TrimStart(Tail(s)) ELSE s
RECURSIVE TrimEnd(_)
TrimEnd(s) ==
    IF s # <<>> /\ s[Len(s)] \in Whitespace THEN TrimEnd(SubSeq(s, 1, Len(s) - 1)) ELSE s
Trim(s) == TrimEnd(TrimStart(s))

\* escapeHtml: textContent -> innerHTML escapes the markup characters; the
\* replacements of formatMessage act on backquotes and asterisks only.
EscapeChar(c) ==
    CASE c = "<" -> <<"&", "l", "t", ";">>
      [] c = ">" -> <<"&", "g", "t", ";">>
      [] c = "&" -> <<"&", "a", "m", "p", ";">>
      [] OTHER -> <<c>>
RECURSIVE escapeHtml(_)
escapeHtml(text) ==
    IF text = <<>> THEN <<>> ELSE EscapeChar(Head(text)) \o escapeHtml(Tail(text))
formatMessage(content) == escapeHtml(content)

\* ------------------------------------------------------------ stream events
\* The JSON bodies of the frames: {"type":T} or {"type":T,"content":C}.
NoContent == <<"-">>
EventTypes == {"text", "result", "error", "done"}
TypeChars(type) ==
    CASE type = "text" -> <<"t", "e", "x", "t">>
      [] type = "content" -> <<"c", "o", "n", "t", "e", "n", "t">>
      [] type = "result" -> <<"r", "e", "s", "u", "l", "t">>
      [] type = "error" -> <<"e", "r", "r", "o", "r">>
      [] type = "done" -> <<"d", "o", "n", "e">>
Event(type, content) == [type |-> type, content |-> content]
Events ==
    {Event("text", <<"x">>), Event("text", <<" ">>), Event("result", <<"y">>),
     Event("result", <<>>), Event("error", <<"z">>), Event("done", NoContent)}

\* JSON.stringify of an event object (what the server writes after "data: ").
JSONStringify(e) ==
    <<"{", Q, "t", "y", "p", "e", Q, ":", Q>> \o TypeChars(e.type) \o <<Q>>
    \o (IF e.content = NoContent THEN <<>>
        ELSE <<",", Q, "c", "o", "n", "t", "e", "n", "t", Q, ":", Q>> \o e.content \o <<Q>>)
    \o <<"}">>

\* JSON.parse: the event whose JSON text is s; any other text (a frame cut
\* by a chunk boundary is never a complete JSON text) throws SyntaxError.
SyntaxError == [type |-> "SyntaxError", content |-> NoContent]
JSONParse(s) ==
    IF \E e \in Events : JSONStringify(e) = s
    THEN CHOOSE e \in Events : JSONStringify(e) = s
    ELSE SyntaxError

Frame(e) == DataPrefix \o JSONStringify(e) \o <<NL>>

\* A frame whose body is no JSON text.
MalformedFrame == DataPrefix \o <<"{", "!">> \o <<NL>>
Frames == {Frame(e) : e \in Events} \cup {MalformedFrame}

\* The frames of the streams that are read cut at any place.
CutFrames ==
    {Frame(Event("text", <<"x">>)), Frame(Event("error", <<"z">>)),
     Frame(Event("done", NoContent)), MalformedFrame}

\* ------------------------------------------------------------ chat messages
\* #chat-messages as the sequence of its message elements.  The id of an
\* element is StreamingId for "streaming-message", Now for msg-<t> with t
\* the current value of Date.now(), and Past for msg-<t> with an earlier t:
\* the code looks an element up only by "streaming-message" or by the
\* current time, so earlier times need not be told apart.
StreamingId == -1
Past == 0
Now == 1

\* Date.now() has advanced: the ids made at the old time are in the past.
Aged(msgs) ==
    [i \in 1..Len(msgs) |-> IF msgs[i].id = Now THEN [msgs[i] EXCEPT !.id = Past]
                                                ELSE msgs[i]]

\* The elements as a task finds them: Date.now() is later than in the last
\* task that read it, or still the same millisecond.
Clock(msgs, later) == IF later THEN Aged(msgs) ELSE msgs

\* document.getElementById: the first element with the id, 0 if none.
GetElementById(msgs, id) ==
    IF \E i \in 1..Len(msgs) : msgs[i].id = id
    THEN CHOOSE i \in 1..Len(msgs) : msgs[i].id = id /\ \A j \in 1..(i - 1) : msgs[j].id # id
    ELSE 0

\* addChatMessage that adds an element even if one has the id.
addChatMessageAlwaysAdds(msgs, role, content, isStreaming, t) ==
    Append(msgs, [id |-> IF isStreaming THEN StreamingId ELSE t, role |-> role,
                  content |-> formatMessage(content)])

addChatMessage(msgs, role, content, isStreaming, t) ==
    LET msgId == IF isStreaming THEN StreamingId ELSE t
        existing == GetElementById(msgs, msgId)
    IN  IF existing # 0
        THEN [msgs EXCEPT ![existing].content = formatMessage(content)]
        ELSE Append(msgs, [id |-> msgId, role |-> role, content |-> formatMessage(content)])

\* The state of one read loop: responseContent, the message list, and the
\* events dispatched so far.
Consumer0 == [responseContent |-> <<>>, messages |-> <<>>, delivered |-> <<>>]

\* The try block with a result branch that adds to the accumulated text.
HandleEventResultAppends(c, e, t) ==
    LET d == [c EXCEPT !.delivered = Append(@, e)] IN
    CASE e.type \in {"text", "content", "result"} ->
           LET rc == c.responseContent
                     \o (IF e.content = NoContent THEN <<>> ELSE e.content) \o <<NL>>
           IN [d EXCEPT !.responseContent = rc,
                        !.messages = addChatMessage(@, "assistant", Trim(rc), TRUE, t)]
      [] e.type = "error" ->
           [d EXCEPT !.messages =
               addChatMessage(@, "assistant",
                   ErrorPrefix \o (IF e.content = NoContent THEN Undefined ELSE e.content),
                   TRUE, t)]
      [] e.type = "done" ->
           LET streaming == GetElementById(c.messages, StreamingId) IN
           IF streaming # 0
           THEN [d EXCEPT !.messages = [@ EXCEPT ![streaming].id = t]]
           ELSE d
      [] OTHER -> d

\* The body of the try block for one parsed event, at time t.
HandleEvent(c, e, t) ==
    LET d == [c EXCEPT !.delivered = Append(@, e)] IN
    CASE e.type \in {"text", "content"} ->
           LET rc == c.responseContent
                     \o (IF e.content = NoContent THEN <<>> ELSE e.content) \o <<NL>>
           IN [d EXCEPT !.responseContent = rc,
                        !.messages = addChatMessage(@, "assistant", Trim(rc), TRUE, t)]
      [] e.type = "result" /\ e.content \notin {NoContent, <<>>} ->
           [d EXCEPT !.responseContent = e.content,
                     !.messages = addChatMessage(@, "assistant", e.content, TRUE, t)]
      [] e.type = "error" ->
           [d EXCEPT !.messages =
               addChatMessage(@, "assistant",
                   ErrorPrefix \o (IF e.content = NoContent THEN Undefined ELSE e.content),
                   TRUE, t)]
      [] e.type = "done" ->
           LET streaming == GetElementById(c.messages, StreamingId) IN
           IF streaming # 0
           THEN [d EXCEPT !.messages = [@ EXCEPT ![streaming].id = t]]
           ELSE d
      [] OTHER -> d

\* One line of a chunk: skipped unless it starts with "data: " and parses.
HandleLine(c, line, t) ==
    IF ~StartsWith(line, DataPrefix) THEN c
    ELSE LET event == JSONParse(Slice(line, 6)) IN
         IF event = SyntaxError THEN c ELSE HandleEvent(c, event, t)

\* The lines of a chunk handled last line first.
RECURSIVE HandleLinesBackwards(_, _, _)
HandleLinesBackwards(c, lines, t) ==
    IF lines = <<>> THEN c
    ELSE HandleLine(HandleLinesBackwards(c, Tail(lines), t), Head(lines), t)

RECURSIVE HandleLines(_, _, _)
HandleLines(c, lines, t) ==
    IF lines = <<>> THEN c
    ELSE HandleLines(HandleLine(c, Head(lines), t), Tail(lines), t)

\* The body of the read loop for one chunk: lines = chunk.split('\n').
ProcessChunk(c, chunk, t) == HandleLines(c, Split(chunk, NL), t)

\* The parts of the state a specification does not use stay as constructed.
StreamIdle == stream = <<>> /\ unread = <<>> /\ consumer = Consumer0
ChatIdle ==
    /\ chatAbortController = 0 /\ chatLoading = FALSE /\ sessions = <<>>
    /\ messages = <<>> /\ onboards = <<>>
ViewIdle ==
    /\ logsUserScrolled = FALSE /\ supervisorLogsUserScrolled = FALSE
    /\ scrollTop = [v \in Views |-> 0] /\ scrollEvents = {}
    /\ serverLog = 0 /\ fetches = {} /\ issued = 0
RefreshIdle ==
    /\ pending = {} /\ shown = [op \in RefreshOps |-> ""]
    /\ console = {} /\ uncaught = {}
\* A canvas nothing was drawn on.
Blank == [drawn |-> FALSE, noData |-> FALSE, max |-> 0, grid |-> <<>>,
          hours |-> <<>>, line |-> <<>>, fill |-> <<>>]
ChartIdle == metrics = <<>> /\ canvas = [c \in Charts |-> Blank]
NoStatus == [kind |-> "", name |-> ""]
SecurityIdle ==
    /\ securityTitle = "" /\ scanStatus = NoStatus /\ securityFindings = ""
    /\ scans = [n \in ScanServices |-> "none"]
PageIdle == ViewIdle /\ RefreshIdle /\ ChartIdle /\ SecurityIdle

\* ------------------------------------------------- direct start/stop calls
\* Every sequence of start and stop calls on the three named pollers.
PollerInit ==
    /\ timers = {} /\ nextTimerId = 1
    /\ logsInterval = 0 /\ supervisorLogsInterval = 0
    /\ securityPollInterval = 0 /\ statusInterval = 0
    /\ logsLive \in BOOLEAN /\ supervisorLogsLive \in BOOLEAN
    /\ loaded = FALSE /\ tab = "home"
    /\ logsModalHidden = TRUE /\ securityModalHidden = TRUE
    /\ currentService = "" /\ logsContent = "" /\ supervisorLogsContent = ""
    /\ scanBtnDisabled = FALSE /\ inflight = EmptyBag /\ switchCalls = <<>>
    /\ startCalls = [k \in PollerNames |-> 0]
    /\ stopCalls = [k \in PollerNames |-> 0]
    /\ lastCall = [k \in PollerNames |-> "none"]
    /\ StreamIdle /\ ChatIdle
    /\ PageIdle

StartOf(k, ts, name) ==
    CASE k = "service-logs" -> startLogsInterval(ts, logsLive)
      [] k = "supervisor-logs" -> startSupervisorLogsInterval(ts, supervisorLogsLive)
      [] k = "security-scan" -> startSecurityPoll(ts, name)

StopOf(k, ts) ==
    CASE k = "service-logs" -> stopLogsInterval(ts)
      [] k = "supervisor-logs" -> stopSupervisorLogsInterval(ts)
      [] k = "security-scan" -> stopSecurityPoll(ts)

CallStart(k) ==
    /\ startCalls[k] < MaxCalls
    /\ CanSetInterval
    /\ \E name \in Services : SetTS(StartOf(k, TS, name))
    /\ startCalls' = [startCalls EXCEPT ![k] = @ + 1]
    /\ lastCall' = [lastCall EXCEPT ![k] = "start"]
    /\ UNCHANGED <<pageVars, statusInterval, stopCalls, domVars, streamVars, chatVars>>

CallStop(k) ==
    /\ stopCalls[k] < MaxCalls
    /\ SetTS(StopOf(k, TS))
    /\ stopCalls' = [stopCalls EXCEPT ![k] = @ + 1]
    /\ lastCall' = [lastCall EXCEPT ![k] = "stop"]
    /\ UNCHANGED <<pageVars, statusInterval, startCalls, domVars, streamVars, chatVars>>

\* The live checkbox of a log poller changes value between two calls.
SetLive(k) ==
    /\ k \in {"service-logs", "supervisor-logs"}
    /\ logsLive' = IF k = "service-logs" THEN ~logsLive ELSE logsLive
    /\ supervisorLogsLive' = IF k = "supervisor-logs" THEN ~supervisorLogsLive
                                                      ELSE supervisorLogsLive
    /\ UNCHANGED <<pageVars, timerVars, callVars, streamVars, chatVars, loaded, tab, logsModalHidden,
                   securityModalHidden, currentService, logsContent,
                   supervisorLogsContent, scanBtnDisabled, inflight, switchCalls>>

PollerNext ==
    \/ \E k \in PollerNames : CallStart(k)
    \/ \E k \in PollerNames : CallStop(k)
    \/ \E k \in PollerNames : SetLive(k)

PollerSpec == PollerInit /\ [][PollerNext]_vars

HandleOf(k) ==
    CASE k = "service-logs" -> logsInterval
      [] k = "supervisor-logs" -> supervisorLogsInterval
      [] k = "security-scan" -> securityPollInterval

\* ------------------------------------------------------------- dashboard
\* A request awaiting its response: the async function that issued it, the
\* service it was issued for ("" if none), and what the caller does once the
\* function returns ("startLogsInterval" for showServiceLogs, else "").
Req(op, name, then) == [op |-> op, name |-> name, then |-> then]
Issue(bag, r) == bag (+) SetToBag({r})
Room == BagCardinality(inflight) < MaxInFlight
Pending == BagToSet(inflight)

Init ==
    /\ timers = {} /\ nextTimerId = 1
    /\ logsInterval = 0 /\ supervisorLogsInterval = 0
    /\ securityPollInterval = 0 /\ statusInterval = 0
    /\ logsLive \in BOOLEAN /\ supervisorLogsLive \in BOOLEAN
    /\ loaded = FALSE /\ tab = "home"
    /\ logsModalHidden = TRUE /\ securityModalHidden = TRUE
    /\ currentService = "" /\ logsContent = "" /\ supervisorLogsContent = ""
    /\ scanBtnDisabled = FALSE /\ inflight = EmptyBag /\ switchCalls = <<>>
    /\ startCalls = [k \in PollerNames |-> 0]
    /\ stopCalls = [k \in PollerNames |-> 0]
    /\ lastCall = [k \in PollerNames |-> "none"]
    /\ StreamIdle /\ ChatIdle
    /\ PageIdle

\* refreshServiceLogs up to its await: no request while currentService is null.
refreshServiceLogs(bag, svc, then) ==
    IF svc = "" THEN bag ELSE Issue(bag, Req("refreshServiceLogs", svc, then))

loadSupervisorLogs(bag) == Issue(bag, Req("loadSupervisorLogs", "", ""))

updateStatus(bag) == Issue(bag, Req("updateStatus", "", ""))

DOMContentLoaded ==
    /\ ~loaded
    /\ loaded' = TRUE
    /\ inflight' = updateStatus(inflight)
    /\ statusInterval' = nextTimerId
    /\ timers' = timers \cup {[id |-> nextTimerId, name |-> "status", arg |-> ""]}
    /\ nextTimerId' = nextTimerId + 1
    /\ UNCHANGED <<pageVars, logsInterval, supervisorLogsInterval, securityPollInterval,
                   logsLive, supervisorLogsLive, tab, logsModalHidden,
                   securityModalHidden, currentService, logsContent,
                   supervisorLogsContent, scanBtnDisabled, switchCalls, callVars, streamVars, chatVars>>

showServiceLogs(name) ==
    /\ loaded /\ Room
    /\ currentService' = name
    /\ logsLive' = TRUE
    /\ logsModalHidden' = FALSE
    /\ inflight' = refreshServiceLogs(inflight, name, "startLogsInterval")
    /\ UNCHANGED <<pageVars, timerVars, supervisorLogsLive, loaded, tab, securityModalHidden,
                   logsContent, supervisorLogsContent, scanBtnDisabled,
                   switchCalls, callVars, streamVars, chatVars>>

closeLogsModalNoStop(ts) == ts

closeLogsModal(ts) == stopLogsInterval(ts)

\* keydown handler, key Escape
Escape ==
    /\ loaded
    /\ SetTS(IF ~logsModalHidden THEN closeLogsModal(TS) ELSE TS)
    /\ logsModalHidden' = TRUE
    /\ securityModalHidden' = TRUE
    /\ UNCHANGED <<pageVars, statusInterval, logsLive, supervisorLogsLive, loaded, tab,
                   currentService, logsContent, supervisorLogsContent,
                   scanBtnDisabled, inflight, switchCalls, callVars, streamVars, chatVars>>

\* click handler of a modal, target the modal itself
ClickOutsideModal(id) ==
    /\ loaded
    /\ \/ /\ id = "logs-modal" /\ ~logsModalHidden
          /\ SetTS(closeLogsModal(TS))
          /\ logsModalHidden' = TRUE
          /\ UNCHANGED securityModalHidden
       \/ /\ id = "security-modal" /\ ~securityModalHidden
          /\ securityModalHidden' = TRUE
          /\ UNCHANGED <<timers, nextTimerId, logsInterval, supervisorLogsInterval,
                         securityPollInterval, logsModalHidden>>
    /\ UNCHANGED <<pageVars, statusInterval, logsLive, supervisorLogsLive, loaded, tab,
                   currentService, logsContent, supervisorLogsContent,
                   scanBtnDisabled, inflight, switchCalls, callVars, streamVars, chatVars>>

LogsLiveChangeNoRefresh ==
    /\ loaded /\ ~logsModalHidden
    /\ logsLive' = ~logsLive
    /\ IF ~logsLive
       THEN /\ Room /\ CanSetInterval
            /\ SetTS(startLogsInterval(TS, TRUE))
       ELSE SetTS(stopLogsInterval(TS))
    /\ UNCHANGED <<pageVars, statusInterval, supervisorLogsLive, loaded, tab, logsModalHidden,
                   securityModalHidden, currentService, logsContent,
                   supervisorLogsContent, scanBtnDisabled, switchCalls, inflight,
                   callVars, streamVars, chatVars>>

\* change handler of #logs-live (the checkbox is inside the logs modal)
LogsLiveChange ==
    /\ loaded /\ ~logsModalHidden
    /\ logsLive' = ~logsLive
    /\ IF ~logsLive
       THEN /\ Room /\ CanSetInterval
            /\ SetTS(startLogsInterval(TS, TRUE))
            /\ inflight' = refreshServiceLogs(inflight, currentService, "")
       ELSE /\ SetTS(stopLogsInterval(TS))
            /\ UNCHANGED inflight
    /\ UNCHANGED <<pageVars, statusInterval, supervisorLogsLive, loaded, tab, logsModalHidden,
                   securityModalHidden, currentService, logsContent,
                   supervisorLogsContent, scanBtnDisabled, switchCalls, callVars, streamVars, chatVars>>

\* change handler of #supervisor-logs-live (the checkbox is on the logs tab)
SupervisorLogsLiveChange ==
    /\ loaded /\ tab = "logs"
    /\ supervisorLogsLive' = ~supervisorLogsLive
    /\ IF ~supervisorLogsLive
       THEN /\ Room /\ CanSetInterval
            /\ SetTS(startSupervisorLogsInterval(TS, TRUE))
            /\ inflight' = loadSupervisorLogs(inflight)
       ELSE /\ SetTS(stopSupervisorLogsInterval(TS))
            /\ UNCHANGED inflight
    /\ UNCHANGED <<pageVars, statusInterval, logsLive, loaded, tab, logsModalHidden,
                   securityModalHidden, currentService, logsContent,
                   supervisorLogsContent, scanBtnDisabled, switchCalls, callVars, streamVars, chatVars>>

\* The calls switchTab(t) makes after it has shown the tab, in order.
SwitchTabCallsNoStop(t) ==
    (IF t = "cron" THEN <<"loadCronJobs">> ELSE <<>>)
    \o (IF t = "jobs" THEN <<"loadJobs">> ELSE <<>>)
    \o (IF t = "logs" THEN <<"loadSupervisorLogs", "startSupervisorLogsInterval">> ELSE <<>>)
    \o (IF t = "caddy" THEN <<"loadCaddy">> ELSE <<>>)

SwitchTabCalls(t) ==
    (IF t # "logs" THEN <<"stopSupervisorLogsInterval">> ELSE <<>>)
    \o (IF t = "cron" THEN <<"loadCronJobs">> ELSE <<>>)
    \o (IF t = "jobs" THEN <<"loadJobs">> ELSE <<>>)
    \o (IF t = "logs" THEN <<"loadSupervisorLogs", "startSupervisorLogsInterval">> ELSE <<>>)
    \o (IF t = "caddy" THEN <<"loadCaddy">> ELSE <<>>)

\* The effect of one call of switchTab on the timers and the requests in
\* flight (the loaders of the cron, jobs and caddy tabs touch neither).
Call(c, st) ==
    CASE c = "stopSupervisorLogsInterval" ->
           [st EXCEPT !.ts = stopSupervisorLogsInterval(@)]
      [] c = "startSupervisorLogsInterval" ->
           [st EXCEPT !.ts = startSupervisorLogsInterval(@, supervisorLogsLive)]
      [] c = "loadSupervisorLogs" ->
           [st EXCEPT !.bag = loadSupervisorLogs(@)]
      [] OTHER -> st

RECURSIVE RunCalls(_, _)
RunCalls(cs, st) ==
    IF cs = <<>> THEN st ELSE RunCalls(Tail(cs), Call(Head(cs), st))

switchTab(t) ==
    /\ loaded
    /\ t = "logs" => Room /\ CanSetInterval
    /\ tab' = t
    /\ switchCalls' = SwitchTabCalls(t)
    /\ LET r == RunCalls(SwitchTabCalls(t), [ts |-> TS, bag |-> inflight]) IN
         /\ SetTS(r.ts)
         /\ inflight' = r.bag
    /\ UNCHANGED <<pageVars, statusInterval, logsLive, supervisorLogsLive, loaded,
                   logsModalHidden, securityModalHidden, currentService,
                   logsContent, supervisorLogsContent, scanBtnDisabled, callVars, streamVars, chatVars>>

showSecurityScan(name) ==
    /\ loaded /\ Room
    /\ currentService' = name
    /\ securityModalHidden' = FALSE
    /\ inflight' = Issue(inflight, Req("loadLatestSecurityScan", name, ""))
    /\ UNCHANGED <<pageVars, timerVars, logsLive, supervisorLogsLive, loaded, tab,
                   logsModalHidden, logsContent, supervisorLogsContent,
                   scanBtnDisabled, switchCalls, callVars, streamVars, chatVars>>

\* click on #scan-btn of the open security modal
runSecurityScan(name) ==
    /\ loaded /\ Room
    /\ ~securityModalHidden /\ ~scanBtnDisabled /\ name = currentService
    /\ scanBtnDisabled' = TRUE
    /\ inflight' = Issue(inflight, Req("runSecurityScan", name, ""))
    /\ UNCHANGED <<pageVars, timerVars, logsLive, supervisorLogsLive, loaded, tab,
                   logsModalHidden, securityModalHidden, currentService,
                   logsContent, supervisorLogsContent, switchCalls, callVars, streamVars, chatVars>>

\* An interval timer fires: its callback runs up to the first await.
TimerFire(t) ==
    /\ t \in timers /\ Room
    /\ inflight' =
         CASE t.name = "service-logs" -> refreshServiceLogs(inflight, currentService, "")
           [] t.name = "supervisor-logs" -> loadSupervisorLogs(inflight)
           [] t.name = "security-scan" -> Issue(inflight, Req("securityTick", t.arg, ""))
           [] t.name = "status" -> updateStatus(inflight)
    /\ UNCHANGED <<pageVars, timerVars, logsLive, supervisorLogsLive, loaded, tab,
                   logsModalHidden, securityModalHidden, currentService,
                   logsContent, supervisorLogsContent, scanBtnDisabled,
                   switchCalls, callVars, streamVars, chatVars>>

\* ---------------------------------------------------------------- responses
Outcomes == {"ok", "error"}
ScanStatus == {"none", "running", "completed", "failed"}

\* refreshServiceLogs after its await; showServiceLogs then starts the poller.
refreshServiceLogsDone(r, res) ==
    /\ r \in Pending /\ r.op = "refreshServiceLogs" /\ res \in Outcomes
    /\ r.then = "startLogsInterval" => CanSetInterval
    /\ inflight' = inflight (-) SetToBag({r})
    /\ logsContent' = IF res = "ok" THEN r.name ELSE "Error"
    /\ SetTS(IF r.then = "startLogsInterval" THEN startLogsInterval(TS, logsLive) ELSE TS)
    /\ UNCHANGED <<pageVars, statusInterval, logsLive, supervisorLogsLive, loaded, tab,
                   logsModalHidden, securityModalHidden, currentService,
                   supervisorLogsContent, scanBtnDisabled, switchCalls, callVars, streamVars, chatVars>>

loadSupervisorLogsDone(r, res) ==
    /\ r \in Pending /\ r.op = "loadSupervisorLogs" /\ res \in Outcomes
    /\ inflight' = inflight (-) SetToBag({r})
    /\ supervisorLogsContent' = IF res = "ok" THEN "lines" ELSE "Error"
    /\ UNCHANGED <<pageVars, timerVars, logsLive, supervisorLogsLive, loaded, tab,
                   logsModalHidden, securityModalHidden, currentService,
                   logsContent, scanBtnDisabled, switchCalls, callVars, streamVars, chatVars>>

updateStatusDone(r, res) ==
    /\ r \in Pending /\ r.op = "updateStatus" /\ res \in Outcomes
    /\ inflight' = inflight (-) SetToBag({r})
    /\ UNCHANGED <<pageVars, timerVars, logsLive, supervisorLogsLive, loaded, tab,
                   logsModalHidden, securityModalHidden, currentService,
                   logsContent, supervisorLogsContent, scanBtnDisabled,
                   switchCalls, callVars, streamVars, chatVars>>

loadLatestSecurityScanDone(r, res) ==
    /\ r \in Pending /\ r.op = "loadLatestSecurityScan"
    /\ res \in ScanStatus \cup {"error"}
    /\ res = "running" => CanSetInterval
    /\ inflight' = inflight (-) SetToBag({r})
    /\ scanBtnDisabled' = CASE res = "running" -> TRUE
                            [] res = "completed" -> FALSE
                            [] OTHER -> scanBtnDisabled
    /\ SetTS(IF res = "running" THEN startSecurityPoll(TS, r.name) ELSE TS)
    /\ UNCHANGED <<pageVars, statusInterval, logsLive, supervisorLogsLive, loaded, tab,
                   logsModalHidden, securityModalHidden, currentService,
                   logsContent, supervisorLogsContent, switchCalls, callVars, streamVars, chatVars>>

runSecurityScanDone(r, res) ==
    /\ r \in Pending /\ r.op = "runSecurityScan" /\ res \in Outcomes
    /\ res = "ok" => CanSetInterval
    /\ inflight' = inflight (-) SetToBag({r})
    /\ scanBtnDisabled' = IF res = "ok" THEN scanBtnDisabled ELSE FALSE
    /\ SetTS(IF res = "ok" THEN startSecurityPoll(TS, r.name) ELSE TS)
    /\ UNCHANGED <<pageVars, statusInterval, logsLive, supervisorLogsLive, loaded, tab,
                   logsModalHidden, securityModalHidden, currentService,
                   logsContent, supervisorLogsContent, switchCalls, callVars, streamVars, chatVars>>

\* The timer state after the security poll callback has its response.
securityTickResultStopOnError(ts, res) ==
    IF res \in {"completed", "failed", "error"} THEN stopSecurityPoll(ts) ELSE ts

securityTickResult(ts, res) ==
    IF res \in {"completed", "failed"} THEN stopSecurityPoll(ts) ELSE ts

securityTickDone(r, res) ==
    /\ r \in Pending /\ r.op = "securityTick"
    /\ res \in ScanStatus \cup {"error"}
    /\ inflight' = inflight (-) SetToBag({r})
    /\ scanBtnDisabled' = IF res \in {"completed", "failed"} THEN FALSE
                                                             ELSE scanBtnDisabled
    /\ SetTS(securityTickResult(TS, res))
    /\ UNCHANGED <<pageVars, statusInterval, logsLive, supervisorLogsLive, loaded, tab,
                   logsModalHidden, securityModalHidden, currentService,
                   logsContent, supervisorLogsContent, switchCalls, callVars, streamVars, chatVars>>

AllReqs ==
    {Req(op, n, th) : op \in {"refreshServiceLogs", "loadSupervisorLogs", "updateStatus",
                              "loadLatestSecurityScan", "runSecurityScan", "securityTick"},
                      n \in Services \cup {""}, th \in {"", "startLogsInterval"}}

Next ==
    \/ DOMContentLoaded
    \/ \E name \in Services : showServiceLogs(name)
    \/ Escape
    \/ \E id \in {"logs-modal", "security-modal"} : ClickOutsideModal(id)
    \/ LogsLiveChange
    \/ SupervisorLogsLiveChange
    \/ \E t \in Tabs : switchTab(t)
    \/ \E name \in Services : showSecurityScan(name)
    \/ \E name \in Services : runSecurityScan(name)
    \/ \E t \in timers : TimerFire(t)
    \/ \E r \in Pending, res \in Outcomes : refreshServiceLogsDone(r, res)
    \/ \E r \in Pending, res \in Outcomes : loadSupervisorLogsDone(r, res)
    \/ \E r \in Pending, res \in Outcomes : updateStatusDone(r, res)
    \/ \E r \in Pending, res \in ScanStatus \cup {"error"} : loadLatestSecurityScanDone(r, res)
    \/ \E r \in Pending, res \in Outcomes : runSecurityScanDone(r, res)
    \/ \E r \in Pending, res \in ScanStatus \cup {"error"} : securityTickDone(r, res)

Spec == Init /\ [][Next]_vars

LiveOf(k) ==
    CASE k = "service-logs" -> logsLive
      [] k = "supervisor-logs" -> supervisorLogsLive
      [] k = "security-scan" -> TRUE

\* ------------------------------------------------------- one response body
\* The read loop of sendChatMessage on one response body: each reader.read()
\* returns the next characters of the stream, cut at any place.
RECURSIVE StreamsOf(_)
StreamsOf(n) ==
    IF n = 0 THEN {<<>>}
    ELSE {f \o rest : f \in CutFrames, rest \in StreamsOf(n - 1)}
\* A frame that does not parse between two well-formed frames.
Sandwiches ==
    {Frame(e1) \o MalformedFrame \o Frame(e2) :
        e1, e2 \in {Event("text", <<"x">>), Event("done", NoContent)}}
Streams == UNION {StreamsOf(n) : n \in 1..MaxFrames} \cup Sandwiches

StreamInit ==
    /\ timers = {} /\ nextTimerId = 1
    /\ logsInterval = 0 /\ supervisorLogsInterval = 0
    /\ securityPollInterval = 0 /\ statusInterval = 0
    /\ logsLive = TRUE /\ supervisorLogsLive = TRUE
    /\ loaded = FALSE /\ tab = "home"
    /\ logsModalHidden = TRUE /\ securityModalHidden = TRUE
    /\ currentService = "" /\ logsContent = "" /\ supervisorLogsContent = ""
    /\ scanBtnDisabled = FALSE /\ inflight = EmptyBag /\ switchCalls = <<>>
    /\ startCalls = [k \in PollerNames |-> 0]
    /\ stopCalls = [k \in PollerNames |-> 0]
    /\ lastCall = [k \in PollerNames |-> "none"]
    /\ stream \in Streams /\ unread = stream /\ consumer = Consumer0
    /\ PageIdle
    /\ ChatIdle

ReadChunk ==
    /\ unread # <<>>
    /\ \E n \in 1..Len(unread), later \in BOOLEAN :
         /\ consumer' = ProcessChunk([consumer EXCEPT !.messages = Clock(@, later)],
                                     SubSeq(unread, 1, n), Now)
         /\ unread' = SubSeq(unread, n + 1, Len(unread))
    /\ UNCHANGED <<pageVars, timerVars, domVars, callVars, stream, chatVars>>

StreamNext == ReadChunk

StreamSpec == StreamInit /\ [][StreamNext]_vars

\* ---------------------------------------------------------------- C2
\* C2: once the whole stream has been read, the events dispatched and the
\* accumulated text are those of the same stream read as one single chunk,
\* however the stream was cut into chunks.
C2_ChunkIndependence ==
    unread = <<>> =>
        /\ consumer.delivered = ProcessChunk(Consumer0, stream, Now).delivered
        /\ consumer.responseContent = ProcessChunk(Consumer0, stream, Now).responseContent

\* ---------------------------------------------------------------- C12
\* C12: once a stream made of a well-formed frame, a frame whose body does
\* not parse and a second well-formed frame has been read, both well-formed
\* frames have been processed as events, in order.
C12_MalformedSkipped ==
    \A e1, e2 \in Events :
        (stream = Frame(e1) \o MalformedFrame \o Frame(e2) /\ unread = <<>>) =>
            consumer.delivered = <<e1, e2>>

\* ---------------------------------------------------------------- C13
\* The lines of a text that the read loop would take as events, in order.
IsEventLine(line) ==
    StartsWith(line, DataPrefix) /\ JSONParse(Slice(line, 6)) # SyntaxError
EventsOf(text) ==
    LET lines == SelectSeq(Split(text, NL), IsEventLine)
    IN  [i \in 1..Len(lines) |-> JSONParse(Slice(lines[i], 6))]

RECURSIVE IsSubseq(_, _)
IsSubseq(a, b) ==
    IF a = <<>> THEN TRUE
    ELSE IF b = <<>> THEN FALSE
    ELSE IF Head(a) = Head(b) THEN IsSubseq(Tail(a), Tail(b))
    ELSE IsSubseq(a, Tail(b))

\* The state after the events es have been handled one after the other.
RECURSIVE Replay(_, _)
Replay(c, es) ==
    IF es = <<>> THEN c ELSE Replay(HandleEvent(c, Head(es), Now), Tail(es))

\* A message list without the times in the ids.
Sealed(msgs) ==
    [i \in 1..Len(msgs) |->
        [sealed |-> msgs[i].id # StreamingId, role |-> msgs[i].role,
         content |-> msgs[i].content]]

Consumed == SubSeq(stream, 1, Len(stream) - Len(unread))

\* C13: the events processed so far are events of the frames read so far,
\* in the order of these frames in the stream (none twice, none made of two
\* frames), and the accumulated text and the messages are what handling
\* exactly these events one after the other in that order gives.
C13_StreamOrder ==
    /\ IsSubseq(consumer.delivered, EventsOf(Consumed))
    /\ consumer.responseContent = Replay(Consumer0, consumer.delivered).responseContent
    /\ Sealed(consumer.messages) = Sealed(Replay(Consumer0, consumer.delivered).messages)

\* Two different events of one stream were processed, in two chunks.
C13_Witness ==
    /\ unread = <<>>
    /\ consumer.delivered = <<Event("text", <<"x">>), Event("done", NoContent)>>
    /\ stream = Frame(Event("text", <<"x">>)) \o MalformedFrame \o Frame(Event("done", NoContent))
    /\ \E i \in 1..Len(consumer.messages) : consumer.messages[i].id = Past

\* ---------------------------------------------------------------- C16
\* C16: once a stream made of an error frame and a frame of another type
\* has been read and the error event was processed, the event after it has
\* been processed too, the error is shown, and the accumulated text is that
\* of the second event alone.
C16_ErrorNotFatal ==
    \A e \in Events :
        LET err == Event("error", <<"z">>) IN
        (/\ e.type # "error"
         /\ stream = Frame(err) \o Frame(e) /\ unread = <<>>
         /\ consumer.delivered # <<>> /\ consumer.delivered[1] = err) =>
            /\ consumer.delivered = <<err, e>>
            /\ consumer.responseContent = Replay(Consumer0, <<e>>).responseContent
            /\ consumer.messages # <<>>

\* ---------------------------------------------------- whole-line chunks
\* The read loop on a response body whose chunks end with a line end: any
\* frames, and #chat-messages empty or holding the in-progress message an
\* earlier session left behind (a stream that ended without a done event).
DashboardIdle ==
    /\ timers = {} /\ nextTimerId = 1
    /\ logsInterval = 0 /\ supervisorLogsInterval = 0
    /\ securityPollInterval = 0 /\ statusInterval = 0
    /\ logsLive = TRUE /\ supervisorLogsLive = TRUE
    /\ loaded = FALSE /\ tab = "home"
    /\ logsModalHidden = TRUE /\ securityModalHidden = TRUE
    /\ currentService = "" /\ logsContent = "" /\ supervisorLogsContent = ""
    /\ scanBtnDisabled = FALSE /\ inflight = EmptyBag /\ switchCalls = <<>>
    /\ startCalls = [k \in PollerNames |-> 0]
    /\ stopCalls = [k \in PollerNames |-> 0]
    /\ lastCall = [k \in PollerNames |-> "none"]

RECURSIVE FrameSeqs(_)
FrameSeqs(n) ==
    IF n = 0 THEN {<<>>}
    ELSE {f \o rest : f \in Frames, rest \in FrameSeqs(n - 1)}

LeftBehind == <<[id |-> StreamingId, role |-> "assistant", content |-> <<"o">>]>>

ReaderInit ==
    /\ DashboardIdle /\ ChatIdle
    /\ PageIdle
    /\ stream \in UNION {FrameSeqs(n) : n \in 1..MaxLines}
    /\ unread = stream
    /\ consumer \in {Consumer0, [Consumer0 EXCEPT !.messages = LeftBehind]}

ReadLines ==
    /\ unread # <<>>
    /\ \E n \in {k \in 1..Len(unread) : unread[k] = NL}, later \in BOOLEAN :
         /\ consumer' = ProcessChunk([consumer EXCEPT !.messages = Clock(@, later)],
                                     SubSeq(unread, 1, n), Now)
         /\ unread' = SubSeq(unread, n + 1, Len(unread))
    /\ UNCHANGED <<pageVars, timerVars, domVars, callVars, stream, chatVars>>

ReaderNext == ReadLines

ReaderSpec == ReaderInit /\ [][ReaderNext]_vars

\* ---------------------------------------------------------------- C14
IsText(e) == e.type \in {"text", "content"}
Payloads == LET es == SelectSeq(consumer.delivered, IsText)
            IN  [i \in 1..Len(es) |-> es[i].content]

\* Array.prototype.join on one separator character.
RECURSIVE Join(_, _)
Join(ps, sep) ==
    IF ps = <<>> THEN <<>>
    ELSE IF Len(ps) = 1 THEN ps[1]
    ELSE Head(ps) \o <<sep>> \o Join(Tail(ps), sep)

\* Every text followed by the separator.
RECURSIVE EachFollowedBy(_, _)
EachFollowedBy(ps, sep) ==
    IF ps = <<>> THEN <<>> ELSE Head(ps) \o <<sep>> \o EachFollowedBy(Tail(ps), sep)

InProgress == {i \in 1..Len(consumer.messages) : consumer.messages[i].id = StreamingId}

\* The last event processed was a text event and no result event came before.
AfterText ==
    /\ consumer.delivered # <<>>
    /\ IsText(consumer.delivered[Len(consumer.delivered)])
    /\ \A i \in 1..Len(consumer.delivered) : consumer.delivered[i].type # "result"

\* C14 as stated: after text events p1..pk the one in-progress message shows
\* p1..pk joined by line breaks.
C14_Original ==
    AfterText =>
        /\ Cardinality(InProgress) = 1
        /\ \A i \in InProgress :
              consumer.messages[i].content = formatMessage(Join(Payloads, NL))

\* C14 amended: after text events p1..pk (no result event before) the
\* accumulated text is every payload followed by a line break, in order;
\* there is exactly one in-progress message, and it shows the accumulated
\* text with the white space at both ends trimmed off.
C14_TextAccumulates ==
    AfterText =>
        /\ consumer.responseContent = EachFollowedBy(Payloads, NL)
        /\ Cardinality(InProgress) = 1
        /\ \A i \in InProgress :
              consumer.messages[i].content = formatMessage(Trim(consumer.responseContent))

\* Three text events were rendered, the second with a payload of white
\* space only: one in-progress message shows the three lines.
C14_Witness ==
    /\ unread = <<>>
    /\ Payloads = << <<"x">>, <<" ">>, <<"x">> >>
    /\ AfterText
    /\ \E i \in InProgress : consumer.messages[i].content = <<"x", NL, " ", NL, "x">>
\* ----------------------------------------------------------------- chat panel
\* A sendChatMessage call is a session: pc is the await it is suspended at
\* ("fetch", "json" for response.json() of a non-ok response, "read" for
\* reader.read(), "closed" once the finally block has run), aborted is the
\* state of the signal of its AbortController.
UserText == <<"m">>
OnboardText == <<"O">>
PreviewText == <<"A">>
StartedText == <<"J">>
CompletedText == <<"C">>
FailedText == <<"F">>
FailureText == ErrorPrefix \o <<"!">>
DetailText == ErrorPrefix \o <<"?">>
ChatEvents == {Event("text", <<"x">>), Event("done", NoContent)}
ChatChunks == {Frame(e) : e \in ChatEvents}
SessionIds == DOMAIN sessions
OnboardIds == DOMAIN onboards

ChatInit ==
    /\ timers = {} /\ nextTimerId = 1
    /\ logsInterval = 0 /\ supervisorLogsInterval = 0
    /\ securityPollInterval = 0 /\ statusInterval = 0
    /\ logsLive = TRUE /\ supervisorLogsLive = TRUE
    /\ loaded = FALSE /\ tab = "home"
    /\ logsModalHidden = TRUE /\ securityModalHidden = TRUE
    /\ currentService = "" /\ logsContent = "" /\ supervisorLogsContent = ""
    /\ scanBtnDisabled = FALSE /\ inflight = EmptyBag /\ switchCalls = <<>>
    /\ startCalls = [k \in PollerNames |-> 0]
    /\ stopCalls = [k \in PollerNames |-> 0]
    /\ lastCall = [k \in PollerNames |-> "none"]
    /\ StreamIdle
    /\ chatAbortController = 0 /\ chatLoading = FALSE /\ sessions = <<>>
    /\ messages = <<>> /\ onboards = <<>>
    /\ PageIdle

notChat == <<timerVars, domVars, callVars, streamVars>>

\* click on #chat-send while it is bound to sendChatMessage
sendChatMessage(later) ==
    /\ ~chatLoading
    /\ Len(sessions) < MaxSessions
    /\ messages' = addChatMessage(Clock(messages, later), "user", UserText, FALSE, Now)
    /\ chatLoading' = TRUE
    /\ chatAbortController' = Len(sessions) + 1
    /\ sessions' = Append(sessions, [pc |-> "fetch", aborted |-> FALSE,
                                     responseContent |-> <<>>, reads |-> 0])
    /\ UNCHANGED <<pageVars, notChat, onboards>>

\* abort() without effect on the request (the signal is not passed on).
stopChatSignalIgnored ==
    /\ chatLoading
    /\ sessions' = IF chatAbortController # 0
                   THEN [sessions EXCEPT ![chatAbortController].aborted = TRUE]
                   ELSE sessions
    /\ chatAbortController' = 0
    /\ chatLoading' = FALSE
    /\ UNCHANGED <<pageVars, notChat, messages, onboards>>

\* click on #chat-send while it is bound to stopChat.  abort() rejects the
\* pending fetch or read of the session with AbortError; its catch block
\* (no message for AbortError) and its finally block run as microtasks of
\* the same task, before any other handler.
stopChat ==
    /\ chatLoading
    /\ sessions' = IF chatAbortController # 0
                   THEN [sessions EXCEPT ![chatAbortController].aborted = TRUE,
                                         ![chatAbortController].pc = "closed"]
                   ELSE sessions
    /\ chatAbortController' = 0
    /\ chatLoading' = FALSE
    /\ UNCHANGED <<pageVars, notChat, messages, onboards>>

\* The end of a session whose catch block writes into the in-progress message.
SessionEndsInPlace(s, name, text, later) ==
    /\ messages' = IF name \notin {"", "AbortError"}
                   THEN addChatMessage(Clock(messages, later), "assistant", text, TRUE, Now)
                   ELSE messages
    /\ chatLoading' = FALSE
    /\ chatAbortController' = 0
    /\ sessions' = [sessions EXCEPT ![s].pc = "closed"]

\* The end of a session without its finally block.
SessionEndsNoFinally(s, name, text, later) ==
    /\ messages' = IF name \notin {"", "AbortError"}
                   THEN addChatMessage(Clock(messages, later), "assistant", text, FALSE, Now)
                   ELSE messages
    /\ UNCHANGED <<chatLoading, chatAbortController>>
    /\ sessions' = [sessions EXCEPT ![s].pc = "closed"]

\* The end of a session whose catch block shows nothing.
SessionEndsSilently(s, name, text, later) ==
    /\ messages' = messages
    /\ chatLoading' = FALSE
    /\ chatAbortController' = 0
    /\ sessions' = [sessions EXCEPT ![s].pc = "closed"]

\* The end of sendChatMessage for session s: the catch block if an error
\* with the given name and message was thrown ("" if none), then finally.
SessionEnds(s, name, text, later) ==
    /\ messages' = IF name \notin {"", "AbortError"}
                   THEN addChatMessage(Clock(messages, later), "assistant", text, FALSE, Now)
                   ELSE messages
    /\ chatLoading' = FALSE
    /\ chatAbortController' = 0
    /\ sessions' = [sessions EXCEPT ![s].pc = "closed"]

\* fetch('/api/chat') settles: a response (ok or not) or a network error.
FetchSettles(s, res, later) ==
    /\ s \in SessionIds /\ res \in {"ok", "notok", "error"}
    /\ sessions[s].pc = "fetch"
    /\ IF res = "error"
       THEN SessionEnds(s, "TypeError", FailureText, later)
       ELSE /\ sessions' = [sessions EXCEPT ![s].pc = IF res = "ok" THEN "read" ELSE "json"]
            /\ UNCHANGED <<messages, chatLoading, chatAbortController>>
    /\ UNCHANGED <<pageVars, notChat, onboards>>

\* response.json() of a non-ok response settles: the session throws.
ErrorBodySettles(s, later) ==
    /\ s \in SessionIds
    /\ sessions[s].pc = "json"
    /\ SessionEnds(s, "Error", DetailText, later)
    /\ UNCHANGED <<pageVars, notChat, onboards>>

\* reader.read() resolves with a chunk: one pass of the read loop.
ChatRead(s, chunk, later) ==
    /\ s \in SessionIds
    /\ sessions[s].pc = "read"
    /\ sessions[s].reads < MaxReads
    /\ LET c == ProcessChunk([responseContent |-> sessions[s].responseContent,
                              messages |-> Clock(messages, later),
                              delivered |-> <<>>], chunk, Now)
       IN /\ messages' = c.messages
          /\ sessions' = [sessions EXCEPT ![s].responseContent = c.responseContent,
                                          ![s].reads = @ + 1]
    /\ UNCHANGED <<pageVars, notChat, onboards, chatLoading, chatAbortController>>

\* reader.read() resolves with done (the loop breaks) or rejects.
ChatReadEnds(s, res, later) ==
    /\ s \in SessionIds /\ res \in {"done", "error"}
    /\ sessions[s].pc = "read"
    /\ SessionEnds(s, IF res = "done" THEN "" ELSE "TypeError", FailureText, later)
    /\ UNCHANGED <<pageVars, notChat, onboards>>

\* click on the onboard button
onboardProject(later) ==
    /\ Len(onboards) < MaxOnboards
    /\ messages' = addChatMessage(Clock(messages, later), "user", OnboardText, FALSE, Now)
    /\ chatLoading' = TRUE
    /\ onboards' = Append(onboards, "preview")
    /\ UNCHANGED <<pageVars, notChat, sessions, chatAbortController>>

\* GET /onboard/preview settles.
OnboardPreviewSettles(o, res, later) ==
    /\ o \in OnboardIds /\ res \in {"ok", "error"}
    /\ onboards[o] = "preview"
    /\ IF res = "ok"
       THEN /\ messages' = addChatMessage(Clock(messages, later), "assistant",
                                          PreviewText, FALSE, Now)
            /\ onboards' = [onboards EXCEPT ![o] = "post"]
            /\ UNCHANGED chatLoading
       ELSE /\ messages' = addChatMessage(Clock(messages, later), "assistant",
                                          FailureText, FALSE, Now)
            /\ onboards' = [onboards EXCEPT ![o] = "done"]
            /\ chatLoading' = FALSE
    /\ UNCHANGED <<pageVars, notChat, sessions, chatAbortController>>

\* POST /onboard settles; pollJobStatus then polls the job.
OnboardPostSettles(o, res, later) ==
    /\ o \in OnboardIds /\ res \in {"ok", "error"}
    /\ onboards[o] = "post"
    /\ messages' = addChatMessage(Clock(messages, later), "assistant",
                      IF res = "ok" THEN StartedText ELSE FailureText, FALSE, Now)
    /\ onboards' = [onboards EXCEPT ![o] = IF res = "ok" THEN "poll" ELSE "done"]
    /\ chatLoading' = FALSE
    /\ UNCHANGED <<pageVars, notChat, sessions, chatAbortController>>

\* One poll of pollJobStatus: the timeout fires and GET /jobs/<id> settles.
pollJobStatus(o, res, later) ==
    /\ o \in OnboardIds /\ res \in {"running", "completed", "failed", "error"}
    /\ onboards[o] = "poll"
    /\ messages' = CASE res = "completed" ->
                          addChatMessage(Clock(messages, later), "assistant",
                                         CompletedText, FALSE, Now)
                     [] res = "failed" ->
                          addChatMessage(Clock(messages, later), "assistant",
                                         FailedText, FALSE, Now)
                     [] OTHER -> messages
    /\ onboards' = [onboards EXCEPT ![o] = IF res = "running" THEN "poll" ELSE "done"]
    /\ UNCHANGED <<pageVars, notChat, sessions, chatAbortController, chatLoading>>

ChatNext ==
    \/ \E later \in BOOLEAN : sendChatMessage(later)
    \/ stopChat
    \/ \E later \in BOOLEAN : onboardProject(later)
    \/ \E s \in SessionIds, res \in {"ok", "notok", "error"}, later \in BOOLEAN :
          FetchSettles(s, res, later)
    \/ \E s \in SessionIds, later \in BOOLEAN : ErrorBodySettles(s, later)
    \/ \E s \in SessionIds, chunk \in ChatChunks, later \in BOOLEAN :
          ChatRead(s, chunk, later)
    \/ \E s \in SessionIds, res \in {"done", "error"}, later \in BOOLEAN :
          ChatReadEnds(s, res, later)
    \/ \E o \in OnboardIds, res \in {"ok", "error"}, later \in BOOLEAN :
          OnboardPreviewSettles(o, res, later)
    \/ \E o \in OnboardIds, res \in {"ok", "error"}, later \in BOOLEAN :
          OnboardPostSettles(o, res, later)
    \/ \E o \in OnboardIds, res \in {"running", "completed", "failed", "error"},
          later \in BOOLEAN : pollJobStatus(o, res, later)

ChatSpec == ChatInit /\ [][ChatNext]_vars

\* ------------------------------------------------------------ chat sessions
\* The chat panel used through its send button alone: sendChatMessage and
\* stopChat, and what the requests of the sessions come back with.  A chunk
\* holds one frame, or a text frame and the done frame after it.
SessionChunks ==
    ChatChunks \cup {Frame(Event("text", <<"x">>)) \o Frame(Event("done", NoContent))}

SessionNext ==
    \/ \E later \in BOOLEAN : sendChatMessage(later)
    \/ stopChat
    \/ \E s \in SessionIds, res \in {"ok", "notok", "error"}, later \in BOOLEAN :
          FetchSettles(s, res, later)
    \/ \E s \in SessionIds, later \in BOOLEAN : ErrorBodySettles(s, later)
    \/ \E s \in SessionIds, chunk \in SessionChunks, later \in BOOLEAN :
          ChatRead(s, chunk, later)
    \/ \E s \in SessionIds, res \in {"done", "error"}, later \in BOOLEAN :
          ChatReadEnds(s, res, later)

SessionSpec == ChatInit /\ [][SessionNext]_vars

\* ---------------------------------------------------------------- C3
InFlight(s) == sessions[s].pc # "closed"

\* C3: at most one chat session is in flight (started and not yet closed)
\* in every reachable state.
C3_OneSessionInFlight ==
    Cardinality({s \in SessionIds : InFlight(s)}) <= 1

\* ---------------------------------------------------------------- C4
\* C4: the step that aborts the signal of a session closes the session and
\* changes no message; once its signal is aborted a session takes no step:
\* it reads no chunk, renders nothing and keeps its accumulated text.
C4_NoRenderAfterAbort ==
    [][\A s \in SessionIds :
          /\ (~sessions[s].aborted /\ sessions'[s].aborted) =>
                 /\ sessions'[s].pc = "closed"
                 /\ messages' = messages
                 /\ sessions'[s].responseContent = sessions[s].responseContent
          /\ sessions[s].aborted => sessions'[s] = sessions[s]]_vars

\* A session whose text was in progress has been cancelled by stopChat: it
\* is closed, no error message was added, the partial text is still shown.
C4_Witness ==
    \E s \in SessionIds :
        /\ sessions[s].aborted /\ sessions[s].pc = "closed"
        /\ sessions[s].reads > 0 /\ sessions[s].responseContent # <<>>
        /\ \A i \in 1..Len(messages) : messages[i].content \notin {FailureText, DetailText}
        /\ \E i \in 1..Len(messages) : messages[i].id = StreamingId

\* ---------------------------------------------------------------- C1
\* C1 as stated: at most one timer per poller name in every reachable
\* state, and no timer whenever start and stop were called equally often.
C1_Original ==
    \A k \in PollerNames :
        /\ Cardinality(TimersOf(k)) <= 1
        /\ (startCalls[k] = stopCalls[k] => TimersOf(k) = {})

\* C1 amended: at most one timer per poller name in every reachable state,
\* the handle variable names exactly that timer, and no timer of the name
\* remains whenever the latest call on the poller was stop, whatever the
\* numbers of start and stop calls.
C1_AtMostOneTimer ==
    \A k \in PollerNames :
        /\ Cardinality(TimersOf(k)) <= 1
        /\ {t.id : t \in TimersOf(k)} = {HandleOf(k)} \ {0}
        /\ (lastCall[k] = "stop" => TimersOf(k) = {})

\* start, start, stop on one poller: unequal numbers and no timer left.
C1_Witness ==
    \E k \in PollerNames :
        /\ startCalls[k] = 2 /\ stopCalls[k] = 1
        /\ lastCall[k] = "stop" /\ TimersOf(k) = {} /\ nextTimerId >= 3

\* ---------------------------------------------------------------- C7
\* C7 as stated: start on an active poller changes nothing (the existing
\* timer is kept), stop on an inactive poller changes nothing.
C7_Original ==
    [][\A k \in PollerNames :
          /\ (CallStart(k) /\ HandleOf(k) # 0 => UNCHANGED timers)
          /\ (CallStop(k) /\ HandleOf(k) = 0 => UNCHANGED <<timerVars, domVars>>)]_vars

\* C7 amended: start on an active poller never creates a second timer: it
\* clears the existing timer and, when the poller's live condition holds,
\* schedules a new one under a new handle (otherwise none); stop on an
\* inactive poller leaves all state unchanged.
C7_StartReplacesStopNoop ==
    [][\A k \in PollerNames :
          /\ (CallStart(k) /\ HandleOf(k) # 0 =>
                 /\ TimersOf(k)' \cap TimersOf(k) = {}
                 /\ Cardinality(TimersOf(k)') = IF LiveOf(k) THEN 1 ELSE 0
                 /\ HandleOf(k)' # HandleOf(k)
                 /\ \A j \in PollerNames \ {k} : TimersOf(j)' = TimersOf(j))
          /\ (CallStop(k) /\ HandleOf(k) = 0 => UNCHANGED <<timerVars, domVars>>)]_vars

\* One poller started twice in a row and still active, another one stopped
\* while inactive.
C7_Witness ==
    \E k, j \in PollerNames :
        /\ startCalls[k] = 2 /\ stopCalls[k] = 0 /\ HandleOf(k) >= 2
        /\ startCalls[j] = 0 /\ stopCalls[j] >= 1 /\ HandleOf(j) = 0

\* ---------------------------------------------------------------- C5
\* C5: while the logs modal is closed no service-logs timer is active
\* (the poller is destroyed by every close and stays so until the next open).
C5_NoLogsTimerWhileClosed ==
    logsModalHidden => logsInterval = 0 /\ TimersOf("service-logs") = {}

\* ---------------------------------------------------------------- C6
TickReq(k, r) ==
    /\ r.then = ""
    /\ r.op = CASE k = "service-logs" -> "refreshServiceLogs"
                [] k = "supervisor-logs" -> "loadSupervisorLogs"
                [] k = "security-scan" -> "securityTick"
                [] k = "status" -> "updateStatus"

TickError(r) ==
    /\ r.then = ""
    /\ \/ refreshServiceLogsDone(r, "error")
       \/ loadSupervisorLogsDone(r, "error")
       \/ securityTickDone(r, "error")
       \/ updateStatusDone(r, "error")

\* C6: a tick of the service-logs, supervisor-logs, security-scan or status
\* poller whose fetch fails leaves every timer and every handle as it was,
\* and each scheduled timer can fire its next tick.
C6_FailedTickKeepsSchedule ==
    [][\A r \in Pending :
          TickError(r) =>
              /\ UNCHANGED timerVars
              /\ timers # {}
              /\ \A t \in timers : (ENABLED TimerFire(t))']_vars

\* A service-logs tick has failed (the view shows the error) and the
\* service-logs timer is still scheduled, next to the status timer.
C6_Witness ==
    /\ logsContent = "Error" /\ logsInterval # 0
    /\ TimersOf("service-logs") # {} /\ TimersOf("status") # {}

\* ---------------------------------------------------------------- C8
Started(k) == \E t \in timers' : t.name = k /\ t \notin timers
TickIssued(k) ==
    \E r \in AllReqs : TickReq(k, r) /\ CopiesIn(r, inflight') > CopiesIn(r, inflight)
InitialRefreshDone ==
    \E n \in Services :
        CopiesIn(Req("refreshServiceLogs", n, "startLogsInterval"), inflight')
            < CopiesIn(Req("refreshServiceLogs", n, "startLogsInterval"), inflight)

\* C8 as stated: every start of a poller issues one tick in the same run.
C8_Original ==
    [][\A k \in PollerNames : Started(k) => TickIssued(k)]_vars

\* C8 amended: every start of the supervisor-logs poller issues a tick in
\* the same handler run; every start of the service-logs poller either
\* issues a tick in the same run (change handler) or directly follows the
\* completion of the refresh that showServiceLogs issued when the view was
\* opened; a start of the security-scan poller issues no tick, its first
\* tick is issued only when the timer fires.
C8_StartTicks ==
    [][/\ Started("supervisor-logs") => TickIssued("supervisor-logs")
       /\ Started("service-logs") => TickIssued("service-logs") \/ InitialRefreshDone
       /\ Started("security-scan") => ~TickIssued("security-scan")]_vars

\* The service-logs poller has been started by its change handler (the
\* view was opened before) and the tick issued with it is in flight.
C8_Witness ==
    /\ logsInterval # 0 /\ logsInterval = nextTimerId - 1 /\ logsLive
    /\ BagIn(Req("refreshServiceLogs", currentService, ""), inflight)

\* ---------------------------------------------------------------- C9
Loaders == {"loadCronJobs", "loadJobs", "loadSupervisorLogs",
            "startSupervisorLogsInterval", "loadCaddy"}

\* C9: the latest switchTab to a tab other than logs called
\* stopSupervisorLogsInterval before any loader or start; a supervisor-logs
\* timer exists only while the logs tab is shown; at most one service-logs
\* and at most one supervisor-logs timer exist.
C9_StopBeforeLoad ==
    /\ (loaded /\ tab # "logs" /\ switchCalls # <<>>) =>
          /\ switchCalls[1] = "stopSupervisorLogsInterval"
          /\ \A i \in 2..Len(switchCalls) : switchCalls[i] \in Loaders
    /\ (supervisorLogsInterval # 0 \/ TimersOf("supervisor-logs") # {}) => tab = "logs"
    /\ Cardinality(TimersOf("service-logs")) <= 1
    /\ Cardinality(TimersOf("supervisor-logs")) <= 1

\* The logs tab was shown with live checked (its content was loaded), the
\* user went on to the cron tab, and no supervisor-logs timer is left.
C9_Witness ==
    /\ tab = "cron" /\ supervisorLogsLive /\ supervisorLogsContent = "lines"
    /\ switchCalls = <<"stopSupervisorLogsInterval", "loadCronJobs">>
    /\ supervisorLogsInterval = 0 /\ nextTimerId >= 3

\* ---------------------------------------------------------------- C10
\* C10: while the security modal is closed no security-scan timer is active.
C10_NoSecurityTimerWhileClosed ==
    securityModalHidden => securityPollInterval = 0 /\ TimersOf("security-scan") = {}

\* ---------------------------------------------------------------- C11
StatusTimer == [id |-> statusInterval, name |-> "status", arg |-> ""]

\* C11: once DOMContentLoaded has run, exactly one status timer is active in
\* every state, it is the one statusInterval holds, and no step (open or
\* close of a modal, switchTab, start or stop of another poller, a tick or a
\* response) clears it, replaces it or adds a second one.
C11_OneStatusTimer ==
    /\ [](loaded => statusInterval # 0 /\ TimersOf("status") = {StatusTimer})
    /\ [][loaded => /\ statusInterval' = statusInterval
                    /\ TimersOf("status")' = TimersOf("status")]_vars

\* The supervisor-logs, service-logs or security pollers have been started
\* and stopped again (two handles were used up by them) and the status timer
\* is the only timer left.
C11_Witness ==
    /\ loaded /\ nextTimerId >= 4
    /\ logsInterval = 0 /\ supervisorLogsInterval = 0 /\ securityPollInterval = 0
    /\ timers = {StatusTimer}

\* ---------------------------------------------------------------- C15
LastEvent == consumer.delivered[Len(consumer.delivered)]
AfterResult == consumer.delivered # <<>> /\ LastEvent.type = "result"

\* C15 as stated: after a result event the accumulated text and the
\* in-progress message are the payload of that event, whatever it is.
C15_Original ==
    AfterResult =>
        /\ consumer.responseContent = LastEvent.content
        /\ Cardinality(InProgress) = 1
        /\ \A i \in InProgress : consumer.messages[i].content = formatMessage(LastEvent.content)

\* C15 amended: after a result event with a non-empty payload the
\* accumulated text and the one in-progress message are that payload alone;
\* a result event with an empty payload changes neither the accumulated
\* text nor any message.
C15_ResultReplaces ==
    /\ (AfterResult /\ LastEvent.content # <<>>) =>
          /\ consumer.responseContent = LastEvent.content
          /\ Cardinality(InProgress) = 1
          /\ \A i \in InProgress :
                consumer.messages[i].content = formatMessage(LastEvent.content)
    /\ \A e \in Events :
          (e.type = "result" /\ e.content = <<>>) =>
              HandleEvent(consumer, e, Now) = [consumer EXCEPT !.delivered = Append(@, e)]

\* Text was accumulated and shown, then a result event replaced it.
C15_Witness ==
    /\ consumer.delivered = <<Event("text", <<"x">>), Event("text", <<"x">>),
                              Event("result", <<"y">>)>>
    /\ consumer.responseContent = <<"y">>
    /\ \E i \in InProgress : consumer.messages[i].content = <<"y">>

\* ---------------------------------------------------------------- C17
\* A message that shows streamed text (every streamed text starts with "x").
IsAnswer(m) == m.role = "assistant" /\ m.content # <<>> /\ m.content[1] = "x"
Frozen(msgs) == {i \in 1..Len(msgs) : msgs[i].id # StreamingId /\ IsAnswer(msgs[i])}

\* C17: no step changes an answer that a done event has frozen: it keeps
\* its place, its content and a persisted identity for good.
C17_DoneFreezes ==
    [][\A i \in Frozen(messages) :
          /\ i <= Len(messages')
          /\ messages'[i].content = messages[i].content
          /\ messages'[i].id # StreamingId]_vars

\* ---------------------------------------------------------------- C18
\* The step in which session s fails: the fetch rejects, the response is not
\* ok, or a read rejects; text is the message of the error thrown.
Fails(s, text, later) ==
    \/ text = FailureText /\ FetchSettles(s, "error", later)
    \/ text = FailureText /\ ChatReadEnds(s, "error", later)
    \/ text = DetailText /\ ErrorBodySettles(s, later)

Cancels(s) == ~sessions[s].aborted /\ sessions'[s].aborted

\* C18: the step that cancels a session (abort) changes no message; the step
\* in which a session fails makes exactly one addChatMessage call, for an
\* assistant message "Error: ..." with an id of its own, after which the
\* chat shows that error text; a session that ends with the end of its
\* stream changes no message.
C18_CancelIsNotFailure ==
    [][\A s \in SessionIds :
          /\ Cancels(s) => messages' = messages
          /\ \A later \in BOOLEAN, text \in {FailureText, DetailText} :
                Fails(s, text, later) =>
                    /\ messages' = addChatMessage(Clock(messages, later), "assistant",
                                                  text, FALSE, Now)
                    /\ \E i \in 1..Len(messages') :
                          /\ messages'[i].content = formatMessage(text)
                          /\ messages'[i].id = Now
                    /\ Len(messages') <= Len(messages) + 1
          /\ \A later \in BOOLEAN :
                ChatReadEnds(s, "done", later) => messages' = messages]_vars

\* One session was cancelled and one failed: the chat shows one error.
C18_Witness ==
    /\ Len(sessions) = 2
    /\ sessions[1].aborted /\ sessions[1].pc = "closed"
    /\ ~sessions[2].aborted /\ sessions[2].pc = "closed"
    /\ Cardinality({i \in 1..Len(messages) :
                       messages[i].content \in {FailureText, DetailText}}) = 1
    /\ Len(messages) = 3

Settles(s) ==
    \/ \E res \in {"ok", "notok", "error"}, later \in BOOLEAN : FetchSettles(s, res, later)
    \/ \E later \in BOOLEAN : ErrorBodySettles(s, later)
    \/ \E res \in {"done", "error"}, later \in BOOLEAN : ChatReadEnds(s, res, later)

SessionLive ==
    /\ ChatInit
    /\ [][SessionNext]_vars
    /\ \A s \in 1..MaxSessions : WF_vars(Settles(s))

Destroyed(s) == s \in SessionIds /\ sessions[s].pc = "closed"

LineHeight == 50
ClientHeight == 100
Tolerance == 50
ScrollStep == 25
Limit == 4
NoLogs == 0
ErrorLine == -1

Min(a, b) == IF a < b THEN a ELSE b
Max(a, b) == IF a > b THEN a ELSE b
Reverse(s) == [i \in 1..Len(s) |-> s[Len(s) + 1 - i]]

\* GET .../logs?limit=Limit: the last Limit lines of the log, oldest first.
Window(n) == [i \in 1..Min(n, Limit) |-> n - Min(n, Limit) + i]

ContentOf(v) == IF v = "logs-content" THEN logsContent ELSE supervisorLogsContent
UserScrolled(v) == IF v = "logs-content" THEN logsUserScrolled ELSE supervisorLogsUserScrolled
Checked(v) == IF v = "logs-content" THEN logsLive ELSE supervisorLogsLive

Shown(v) == IF v = "logs-content" THEN ~logsModalHidden
                                   ELSE tab = "logs" /\ logsModalHidden

\* Geometry of a view showing content c.
ScrollHeight(c) == Max(ClientHeight, Len(c) * LineHeight)
MaxScroll(c) == ScrollHeight(c) - ClientHeight
Clamp(c, top) == Min(top, MaxScroll(c))
ScrollPositions(c) == {p \in 0..MaxScroll(c) : p % ScrollStep = 0}
atBottom(c, top) == ScrollHeight(c) - top - ClientHeight < Tolerance
atTop(top) == top < Tolerance
FirstVisible(c, top) == c[(top \div LineHeight) + 1]

Fetch(v, body, wasAtTop) ==
    [view |-> v, n |-> issued + 1, body |-> body, wasAtTop |-> wasAtTop]

\* What stays of scrollEvents when view v goes from offset old to offset new.
Scrolled(v, old, new) == IF new # old THEN scrollEvents \cup {v} ELSE scrollEvents

ViewerInit ==
    /\ timers = {} /\ nextTimerId = 1
    /\ logsInterval = 0 /\ supervisorLogsInterval = 0
    /\ securityPollInterval = 0 /\ statusInterval = 0
    /\ logsLive = TRUE /\ supervisorLogsLive = TRUE
    /\ loaded = TRUE /\ securityModalHidden = TRUE
    /\ \/ tab = "home" /\ logsModalHidden = FALSE /\ currentService = "a"
       \/ tab = "logs" /\ logsModalHidden = TRUE /\ currentService = ""
    /\ logsContent = <<>> /\ supervisorLogsContent = <<>>
    /\ scanBtnDisabled = FALSE /\ inflight = EmptyBag /\ switchCalls = <<>>
    /\ startCalls = [k \in PollerNames |-> 0]
    /\ stopCalls = [k \in PollerNames |-> 0]
    /\ lastCall = [k \in PollerNames |-> "none"]
    /\ StreamIdle /\ ChatIdle
    /\ ViewIdle /\ RefreshIdle /\ ChartIdle /\ SecurityIdle

notViewer == <<timerVars, callVars, streamVars, chatVars, refreshVars, chartVars, securityVars, loaded, tab, logsModalHidden,
               securityModalHidden, currentService, scanBtnDisabled, inflight, switchCalls>>

\* The server writes one more log line.
ServerWrites ==
    /\ serverLog < MaxLog
    /\ serverLog' = serverLog + 1
    /\ UNCHANGED <<notViewer, logsLive, supervisorLogsLive, logsContent,
                   supervisorLogsContent, logsUserScrolled, supervisorLogsUserScrolled,
                   scrollTop, scrollEvents, fetches, issued>>

\* The user moves the scrollbar of view v to offset p.
UserScrolls(v, p) ==
    /\ Shown(v)
    /\ p \in ScrollPositions(ContentOf(v)) /\ p # scrollTop[v]
    /\ scrollTop' = [scrollTop EXCEPT ![v] = p]
    /\ scrollEvents' = scrollEvents \cup {v}
    /\ UNCHANGED <<notViewer, logsLive, supervisorLogsLive, logsContent,
                   supervisorLogsContent, logsUserScrolled, supervisorLogsUserScrolled,
                   serverLog, fetches, issued>>

\* scroll handler of #logs-content
logsContentScroll ==
    /\ "logs-content" \in scrollEvents
    /\ scrollEvents' = scrollEvents \ {"logs-content"}
    /\ logsUserScrolled' = ~atBottom(logsContent, scrollTop["logs-content"])
    /\ UNCHANGED <<notViewer, logsLive, supervisorLogsLive, logsContent,
                   supervisorLogsContent, supervisorLogsUserScrolled,
                   scrollTop, serverLog, fetches, issued>>

\* scroll handler of #supervisor-logs
supervisorLogsScroll ==
    /\ "supervisor-logs" \in scrollEvents
    /\ scrollEvents' = scrollEvents \ {"supervisor-logs"}
    /\ supervisorLogsUserScrolled' = ~atTop(scrollTop["supervisor-logs"])
    /\ UNCHANGED <<notViewer, logsLive, supervisorLogsLive, logsContent,
                   supervisorLogsContent, logsUserScrolled,
                   scrollTop, serverLog, fetches, issued>>

\* A log request of view v leaves: refreshServiceLogs, resp. loadSupervisorLogs
\* (which reads wasAtTop first), up to the await.
CanFetch == Cardinality(fetches) < MaxFetches /\ issued < MaxIssued
Request(v) ==
    /\ fetches' = fetches \cup {Fetch(v, serverLog,
                                     v = "supervisor-logs" /\ atTop(scrollTop[v]))}
    /\ issued' = issued + 1

\* The interval timer of view v fires.
ViewerTick(v) ==
    /\ Shown(v) /\ Checked(v) /\ CanFetch
    /\ Request(v)
    /\ UNCHANGED <<notViewer, logsLive, supervisorLogsLive, logsContent,
                   supervisorLogsContent, logsUserScrolled, supervisorLogsUserScrolled,
                   scrollTop, scrollEvents, serverLog>>

\* change handler of #logs-live, with the scroll state
logsLiveChanged ==
    /\ Shown("logs-content")
    /\ logsLive' = ~logsLive
    /\ IF ~logsLive
       THEN /\ CanFetch
            /\ logsUserScrolled' = FALSE
            /\ Request("logs-content")
       ELSE UNCHANGED <<logsUserScrolled, fetches, issued>>
    /\ UNCHANGED <<notViewer, supervisorLogsLive, logsContent, supervisorLogsContent,
                   supervisorLogsUserScrolled, scrollTop, scrollEvents, serverLog>>

\* change handler of #supervisor-logs-live, with the scroll state
supervisorLogsLiveChanged ==
    /\ Shown("supervisor-logs")
    /\ supervisorLogsLive' = ~supervisorLogsLive
    /\ IF ~supervisorLogsLive
       THEN /\ CanFetch
            /\ supervisorLogsUserScrolled' = FALSE
            /\ Request("supervisor-logs")
       ELSE UNCHANGED <<supervisorLogsUserScrolled, fetches, issued>>
    /\ UNCHANGED <<notViewer, logsLive, logsContent, supervisorLogsContent,
                   logsUserScrolled, scrollTop, scrollEvents, serverLog>>

\* What refreshServiceLogs shows for the log lines it was sent.
LogsHtml(n) == IF n = 0 THEN <<NoLogs>> ELSE Window(n)
\* What loadSupervisorLogs shows: the lines newest first.
SupervisorText(n) == Reverse(Window(n))

\* The offset of #logs-content after refreshServiceLogs has replaced content
\* old by content new at offset top.
logsScrollAfter(old, new, top, userScrolled) ==
    LET wasAtBottom == atBottom(old, top)
    IN  IF ~userScrolled \/ wasAtBottom THEN MaxScroll(new) ELSE Clamp(new, top)

\* The offset of #supervisor-logs after loadSupervisorLogs has replaced the
\* content; wasAtTop was read before the request left.
supervisorScrollAfter(new, top, userScrolled, wasAtTop) ==
    IF ~userScrolled \/ wasAtTop THEN 0 ELSE Clamp(new, top)

\* refreshServiceLogs dropping every response but that of the latest request.
logsRenderLatestOnly(f, res) ==
    /\ f \in fetches /\ f.view = "logs-content" /\ res \in Outcomes
    /\ fetches' = fetches \ {f}
    /\ LET v == "logs-content"
           new == IF f.n # issued THEN logsContent
                  ELSE IF res = "ok" THEN LogsHtml(f.body) ELSE <<ErrorLine>>
           top == IF f.n # issued THEN scrollTop[v]
                  ELSE IF res = "ok"
                  THEN logsScrollAfter(logsContent, new, scrollTop[v], logsUserScrolled)
                  ELSE Clamp(new, scrollTop[v])
       IN  /\ logsContent' = new
           /\ scrollTop' = [scrollTop EXCEPT ![v] = top]
           /\ scrollEvents' = Scrolled(v, scrollTop[v], top)
    /\ UNCHANGED <<notViewer, logsLive, supervisorLogsLive, supervisorLogsContent,
                   logsUserScrolled, supervisorLogsUserScrolled, serverLog, issued>>

\* refreshServiceLogs after its await: the try block, or the catch block.
logsRender(f, res) ==
    /\ f \in fetches /\ f.view = "logs-content" /\ res \in Outcomes
    /\ fetches' = fetches \ {f}
    /\ LET v == "logs-content"
           new == IF res = "ok" THEN LogsHtml(f.body) ELSE <<ErrorLine>>
           top == IF res = "ok"
                  THEN logsScrollAfter(logsContent, new, scrollTop[v], logsUserScrolled)
                  ELSE Clamp(new, scrollTop[v])
       IN  /\ logsContent' = new
           /\ scrollTop' = [scrollTop EXCEPT ![v] = top]
           /\ scrollEvents' = Scrolled(v, scrollTop[v], top)
    /\ UNCHANGED <<notViewer, logsLive, supervisorLogsLive, supervisorLogsContent,
                   logsUserScrolled, supervisorLogsUserScrolled, serverLog, issued>>

\* loadSupervisorLogs after its await: the try block, or the catch block.
supervisorRender(f, res) ==
    /\ f \in fetches /\ f.view = "supervisor-logs" /\ res \in Outcomes
    /\ fetches' = fetches \ {f}
    /\ LET v == "supervisor-logs"
           new == IF res = "ok" THEN SupervisorText(f.body) ELSE <<ErrorLine>>
           top == IF res = "ok"
                  THEN supervisorScrollAfter(new, scrollTop[v],
                                             supervisorLogsUserScrolled, f.wasAtTop)
                  ELSE Clamp(new, scrollTop[v])
       IN  /\ supervisorLogsContent' = new
           /\ scrollTop' = [scrollTop EXCEPT ![v] = top]
           /\ scrollEvents' = Scrolled(v, scrollTop[v], top)
    /\ UNCHANGED <<notViewer, logsLive, supervisorLogsLive, logsContent,
                   logsUserScrolled, supervisorLogsUserScrolled, serverLog, issued>>

ViewerNext ==
    \/ ServerWrites
    \/ \E v \in Views : \E p \in ScrollPositions(ContentOf(v)) : UserScrolls(v, p)
    \/ logsContentScroll
    \/ supervisorLogsScroll
    \/ \E v \in Views : ViewerTick(v)
    \/ logsLiveChanged
    \/ supervisorLogsLiveChanged
    \/ \E f \in fetches, res \in Outcomes : logsRender(f, res)
    \/ \E f \in fetches, res \in Outcomes : supervisorRender(f, res)

ViewerSpec == ViewerInit /\ [][ViewerNext]_vars

\* ---------------------------------------------------------------- C21
FollowMode(v) == ~UserScrolled(v)
\* Distance of the viewport of v from its edge: the end of the service
\* logs, the start of the supervisor logs.
EdgeDistance(v) ==
    IF v = "logs-content"
    THEN ScrollHeight(logsContent) - scrollTop[v] - ClientHeight
    ELSE scrollTop[v]
ScrollHandler(v) == IF v = "logs-content" THEN logsContentScroll ELSE supervisorLogsScroll
LiveReEnabled(v) ==
    IF v = "logs-content" THEN logsLiveChanged /\ logsLive'
                          ELSE supervisorLogsLiveChanged /\ supervisorLogsLive'

\* C21: followMode is true at the start; the scroll handler makes it false
\* when the viewport is more than 50px from the edge; once false it becomes
\* true again only in a step that re-enables 'live'.
C21_FollowMode ==
    /\ \A v \in Views : FollowMode(v)
    /\ [][\A v \in Views :
             /\ ScrollHandler(v) /\ EdgeDistance(v) > Tolerance => ~FollowMode(v)'
             /\ ~FollowMode(v) /\ FollowMode(v)' => LiveReEnabled(v)]_vars

\* ---------------------------------------------------------------- C22
\* The edge offset of view v when it shows content c.
EdgeOf(v, c) == IF v = "logs-content" THEN MaxScroll(c) ELSE 0
AtEdge(v) == EdgeDistance(v) < Tolerance
RenderOk(v, f) == IF v = "logs-content" THEN logsRender(f, "ok") ELSE supervisorRender(f, "ok")

\* The scroll rule for a successful render of view v: to the edge if
\* followMode holds or the viewport is at the edge in the state before the
\* render, otherwise the offset stays (cut to the height of the new content).
ScrollRule(v) ==
    \A f \in fetches :
        RenderOk(v, f) =>
            scrollTop'[v] = IF FollowMode(v) \/ AtEdge(v)
                            THEN EdgeOf(v, ContentOf(v)')
                            ELSE Clamp(ContentOf(v)', scrollTop[v])

\* C22: every successful render of either view follows the scroll rule.
C22_ScrollRule == [][\A v \in Views : ScrollRule(v)]_vars

\* ---------------------------------------------------------------- C23
Range(s) == {s[i] : i \in 1..Len(s)}
IsLogLines(c) == c # <<>> /\ \A x \in Range(c) : x > 0
\* Content new has every line of content old that the window still holds
\* and at least one line newer than all lines of old.
AddsEntries(old, new) ==
    /\ IsLogLines(old) /\ IsLogLines(new)
    /\ \E x \in Range(new) : \A y \in Range(old) : x > y

\* A render of view v away from the edge that adds entries and keeps the
\* line that is first visible keeps it first visible.
KeepsPosition(v) ==
    \A f \in fetches :
        /\ RenderOk(v, f)
        /\ ~FollowMode(v) /\ ~AtEdge(v)
        /\ AddsEntries(ContentOf(v), ContentOf(v)')
        /\ FirstVisible(ContentOf(v), scrollTop[v]) \in Range(ContentOf(v)')
        => FirstVisible(ContentOf(v)', scrollTop'[v]) = FirstVisible(ContentOf(v), scrollTop[v])

\* C23: with followMode false and the viewport away from the edge, a render
\* that adds entries leaves the first visible log line the same.
C23_ReadingPosition == [][\A v \in Views : KeepsPosition(v)]_vars

\* ---------------------------------------------------------------- C30
Rendering(v, n) == IF v = "logs-content" THEN LogsHtml(n) ELSE SupervisorText(n)

\* C30: a tick of the poller of a view goes out whether or not an earlier
\* request of the view is still awaiting its response, and every response is
\* rendered when it arrives, whatever the order the requests were issued in:
\* the view shows the response that arrived last.
C30_LastWriteWins ==
    /\ [](\A v \in Views : Shown(v) /\ Checked(v) /\ CanFetch => ENABLED ViewerTick(v))
    /\ [][\A v \in Views : \A f \in fetches :
             RenderOk(v, f) => ContentOf(v)' = Rendering(v, f.body)]_vars

\* Two requests of the service-logs view overlapped and the later one was
\* answered first: the view shows its lines while the earlier request, sent
\* when the log was shorter, is still to be rendered.
C30_Witness ==
    \E f \in fetches :
        /\ f.view = "logs-content" /\ f.n < issued
        /\ f.body > 0
        /\ logsContent = LogsHtml(serverLog) /\ serverLog > f.body
        /\ ENABLED logsRender(f, "ok")

\* ---------------------------------------------------- refresh operations
\* The five refresh operations with the outcomes of api(): "ok", "rejected"
\* (fetch rejects) and "status" (non-success status: api throws).  Each
\* operation owns a view: the home grid, #logs-content, #supervisor-logs,
\* the charts, #scan-status.
ApiOutcomes == {"ok", "rejected", "status"}
\* api(): the value awaited by the caller, or the error thrown into it.
api(outcome) == IF outcome = "ok" THEN "data" ELSE "Error"
\* The catch block of each operation.
Catch(op) ==
    CASE op = "updateStatus" -> "console"
      [] op = "refreshServiceLogs" -> "inline"
      [] op = "loadSupervisorLogs" -> "inline"
      [] op = "refreshMetrics" -> "console"
      [] op = "securityTick" -> "console"

RefreshInit ==
    /\ DashboardIdle /\ StreamIdle /\ ChatIdle
    /\ ViewIdle /\ RefreshIdle /\ ChartIdle /\ SecurityIdle

\* The operation starts (interval tick or user action) and awaits api().
RefreshStarts(op) ==
    /\ op \notin pending
    /\ pending' = pending \cup {op}
    /\ UNCHANGED <<timerVars, domVars, callVars, streamVars, chatVars, viewVars,
                   chartVars, securityVars, shown, console, uncaught>>

\* api() settles and the operation runs to its end.
RefreshSettles(op, outcome) ==
    /\ op \in pending
    /\ pending' = pending \ {op}
    /\ IF outcome = "ok"
       THEN /\ shown' = [shown EXCEPT ![op] = api(outcome)]
            /\ UNCHANGED console
       ELSE IF Catch(op) = "inline"
       THEN /\ shown' = [shown EXCEPT ![op] = api(outcome)]
            /\ UNCHANGED console
       ELSE /\ console' = console \cup {op}
            /\ UNCHANGED shown
    /\ UNCHANGED <<timerVars, domVars, callVars, streamVars, chatVars, viewVars,
                   chartVars, securityVars, uncaught>>

RefreshNext ==
    \/ \E op \in RefreshOps : RefreshStarts(op)
    \/ \E op \in RefreshOps, outcome \in ApiOutcomes : RefreshSettles(op, outcome)

RefreshSpec == RefreshInit /\ [][RefreshNext]_vars

\* ---------------------------------------------------------------- C24
\* C24: a failed api() call of any refresh operation is caught inside the
\* operation and shows an error message in the view the operation owns.
C24_ErrorsInline ==
    [][\A op \in RefreshOps, outcome \in {"rejected", "status"} :
          RefreshSettles(op, outcome) =>
              /\ uncaught' = {}
              /\ shown'[op] = "Error"]_vars

\* --------------------------------------------------------- metrics charts
\* refreshMetrics once GET .../metrics has answered, and drawChart.  A
\* JavaScript value is a number, NaN or undefined (a field the sample lacks).
\* Times are in quarters of an hour, so an hour boundary is a multiple of
\* Hour.  The scale max is kept in tenths (max = 1.1 * m is 11 * m tenths),
\* a coordinate is the fraction n / d, a label is the number toFixed(1)
\* prints, in tenths ("16.5" is 165).
Num(v) == [kind |-> "number", v |-> v]
NaN == [kind |-> "NaN", v |-> 0]
undefined == [kind |-> "undefined", v |-> 0]
ToNumber(x) == IF x.kind = "undefined" THEN NaN ELSE x
\* x || 0
OrZero(x) == IF x.kind # "number" \/ x.v = 0 THEN Num(0) ELSE x

Hour == 4
Readings == {Num(0), Num(5), Num(10), Num(20), undefined}
Sample(t, v) == [timestamp |-> t, cpu_percent |-> v, memory_mb |-> v, disk_mb |-> v]
\* n samples in time order, taken every step quarters (step 0: all at the
\* same instant), the first one on an hour boundary or a quarter after it
\* and the last one possibly a quarter late, each with one reading in its
\* three fields.
MetricsOf(n) ==
    {[i \in 1..n |-> Sample(t0 + (i - 1) * step + (IF i = n /\ n > 1 THEN late ELSE 0),
                             vs[i])] :
        t0 \in 0..1, step \in 0..MaxStep, late \in 0..1,
        vs \in [1..n -> Readings]}

\* canvas geometry: pad = {t: 10, b: 20, l: 50, r: 10} on a 300 x 150 canvas
PadT == 10
PadB == 20
PadL == 50
PadR == 10
CanvasW == 300
CanvasH == 150
PlotW == CanvasW - PadL - PadR
PlotH == CanvasH - PadT - PadB

Coord(n, d) == [kind |-> "number", n |-> n, d |-> d]
NaNCoord == [kind |-> "NaN", n |-> 0, d |-> 1]

\* Math.max(...data)
MathMax(data) ==
    IF \E i \in 1..Len(data) : ToNumber(data[i]).kind = "NaN"
    THEN NaN
    ELSE Num(CHOOSE m \in {data[i].v : i \in 1..Len(data)} :
                 \A i \in 1..Len(data) : data[i].v <= m)

\* Math.max(...data) * 1.1 with no fallback, in tenths.
ScaleNoFloor(data) ==
    LET m == MathMax(data) IN IF m.kind = "NaN" THEN 10 ELSE 11 * m.v

\* const max = Math.max(...data) * 1.1 || 1, in tenths
Scale(data) ==
    LET m == MathMax(data)
    IN  IF m.kind = "NaN" \/ m.v = 0 THEN 10 ELSE 11 * m.v

\* (x).toFixed(1) for x >= 0 given in fortieths; a value half way between two
\* tenths goes where the binary rounding of x has put it (up or down).
toFixed1(x40, up) ==
    LET q == x40 \div 4
        r == x40 % 4
    IN  IF r < 2 THEN q ELSE IF r > 2 THEN q + 1 ELSE IF up THEN q + 1 ELSE q

\* The label counted from the bottom gridline.
GridValueFromBottom(max, i) == max * i

\* max - (max/4)*i for max in tenths, in fortieths
GridValue(max, i) == max * (4 - i)

\* horizontal grid: line i at y, with its label
Grid(max, up) ==
    [k \in 1..5 |-> [y |-> PadT + (PlotH \div 4) * (k - 1),
                     label |-> toFixed1(GridValue(max, k - 1), up)]]

RECURSIVE HoursUpTo(_, _)
\* the while loop over hour
HoursUpTo(hour, maxTime) ==
    IF hour <= maxTime THEN <<hour>> \o HoursUpTo(hour + Hour, maxTime) ELSE <<>>

\* firstHour: setMinutes(0, 0, 0), then one hour more if <= minTime
FirstHour(minTime) ==
    LET floor == (minTime \div Hour) * Hour
    IN  IF floor <= minTime THEN floor + Hour ELSE floor

\* hourly markers: the hours drawn, each with its x
Hours(minTime, maxTime) ==
    LET timeRange == maxTime - minTime
        all == HoursUpTo(FirstHour(minTime), maxTime)
        x(hour) == Coord(PadL * timeRange + (hour - minTime) * PlotW, timeRange)
        inPlot(c) == c.n >= PadL * c.d /\ c.n <= (CanvasW - PadR) * c.d
    IN  IF timeRange > 0
        THEN SelectSeq([k \in 1..Len(all) |-> [hour |-> all[k], x |-> x(all[k])]],
                       LAMBDA tick : inPlot(tick.x))
        ELSE <<>>

\* The point of sample i placed by its index whatever the time span.
PointByIndex(data, times, max, i) ==
    LET last == IF Len(data) - 1 = 0 THEN 1 ELSE Len(data) - 1
        v == ToNumber(data[i])
    IN  [x |-> Coord(PadL * last + (i - 1) * PlotW, last),
         y |-> IF v.kind = "NaN" THEN NaNCoord
               ELSE Coord((PadT + PlotH) * max - 10 * v.v * PlotH, max)]

\* the point of sample i (from 1) on the series line
Point(data, times, max, i) ==
    LET timeRange == times[Len(times)] - times[1]
        last == IF Len(data) - 1 = 0 THEN 1 ELSE Len(data) - 1
        v == ToNumber(data[i])
    IN  [x |-> IF timeRange > 0
               THEN Coord(PadL * timeRange + (times[i] - times[1]) * PlotW, timeRange)
               ELSE Coord(PadL * last + (i - 1) * PlotW, last),
         y |-> IF v.kind = "NaN" THEN NaNCoord
               ELSE Coord((PadT + PlotH) * max - 10 * v.v * PlotH, max)]

\* drawChart drawing the grid also when there is no data.
drawChartAlwaysGrid(data, timestamps, up) ==
    IF Len(data) = 0
    THEN [Blank EXCEPT !.drawn = TRUE, !.noData = TRUE, !.max = 10, !.grid = Grid(10, up)]
    ELSE LET max == Scale(data)
         IN  [drawn |-> TRUE, noData |-> FALSE, max |-> max,
              grid |-> Grid(max, up),
              hours |-> Hours(timestamps[1], timestamps[Len(timestamps)]),
              line |-> [i \in 1..Len(data) |-> Point(data, timestamps, max, i)],
              fill |-> <<PadL + PlotW, PadL>>]

drawChart(data, timestamps, up) ==
    IF Len(data) = 0
    THEN [Blank EXCEPT !.drawn = TRUE, !.noData = TRUE]
    ELSE LET max == Scale(data)
         IN  [drawn |-> TRUE, noData |-> FALSE, max |-> max,
              grid |-> Grid(max, up),
              hours |-> Hours(timestamps[1], timestamps[Len(timestamps)]),
              line |-> [i \in 1..Len(data) |-> Point(data, timestamps, max, i)],
              fill |-> <<PadL + PlotW, PadL>>]

Column(m, field) ==
    [i \in 1..Len(m) |-> CASE field = "timestamp" -> m[i].timestamp
                           [] field = "cpu_percent" -> m[i].cpu_percent
                           [] field = "memory_mb" -> m[i].memory_mb
                           [] field = "disk_mb" -> OrZero(m[i].disk_mb)]

ChartInit ==
    /\ DashboardIdle /\ StreamIdle /\ ChatIdle
    /\ ViewIdle /\ RefreshIdle /\ SecurityIdle
    /\ \E n \in 0..MaxPoints : metrics \in MetricsOf(n)
    /\ canvas = [c \in Charts |-> Blank]

\* refreshMetrics after its await: the three charts are drawn.
refreshMetricsDone(up) ==
    /\ LET timestamps == Column(metrics, "timestamp")
       IN  canvas' = [c \in Charts |->
                        CASE c = "cpu-chart" ->
                                 drawChart(Column(metrics, "cpu_percent"), timestamps, up)
                          [] c = "memory-chart" ->
                                 drawChart(Column(metrics, "memory_mb"), timestamps, up)
                          [] c = "disk-chart" ->
                                 drawChart(Column(metrics, "disk_mb"), timestamps, up)]
    /\ UNCHANGED <<timerVars, domVars, callVars, streamVars, chatVars, viewVars,
                   refreshVars, securityVars, metrics>>

ChartNext == \E up \in BOOLEAN : refreshMetricsDone(up)

ChartSpec == ChartInit /\ [][ChartNext]_vars

\* ---------------------------------------------------------------- C25
\* The data drawChart gets for chart c.
Series(c) ==
    Column(metrics, CASE c = "cpu-chart" -> "cpu_percent"
                      [] c = "memory-chart" -> "memory_mb"
                      [] c = "disk-chart" -> "disk_mb")
AllNumbers(data) == \A i \in 1..Len(data) : data[i].kind = "number"
Largest(data) == CHOOSE m \in {data[i].v : i \in 1..Len(data)} :
                     \A i \in 1..Len(data) : data[i].v <= m

\* C25: a chart drawn from a non-empty list of numbers has the scale
\* 1.1 * max(values) (11 * max tenths), or 1 when all values are zero; the
\* single point (t0, 0) is drawn at scale 1, on the bottom line of the plot.
C25_VerticalScale ==
    \A c \in Charts :
        canvas[c].drawn /\ Series(c) # <<>> /\ AllNumbers(Series(c)) =>
            /\ canvas[c].max = IF Largest(Series(c)) = 0 THEN 10
                               ELSE 11 * Largest(Series(c))
            /\ Series(c) = <<Num(0)>> =>
                  /\ canvas[c].max = 10
                  /\ Len(canvas[c].line) = 1
                  /\ canvas[c].line[1].x = Coord(PadL, 1)
                  /\ canvas[c].line[1].y = Coord((PadT + PlotH) * 10, 10)

\* The charts of a single sample with reading 0 have been drawn.
C25_Witness ==
    /\ Len(metrics) = 1 /\ metrics[1].cpu_percent = Num(0)
    /\ \A c \in Charts : canvas[c].drawn /\ canvas[c].max = 10 /\ ~canvas[c].noData

\* ---------------------------------------------------------------- C26
Abs(x) == IF x < 0 THEN -x ELSE x
Labels(c) == [k \in 1..Len(canvas[c].grid) |-> canvas[c].grid[k].label]

\* C26: a chart with data has five gridlines at the four equal divisions
\* of the plot height, and the label of gridline i (0..4 from the top) is
\* max - i * max / 4 to the nearest tenth; the values 10, 20, 5 give the
\* scale 22 and the labels 22.0, 16.5, 11.0, 5.5, 0.0.
C26_GridLabels ==
    \A c \in Charts :
        canvas[c].drawn /\ Series(c) # <<>> =>
            /\ Len(canvas[c].grid) = 5
            /\ \A i \in 0..4 :
                  /\ 4 * (canvas[c].grid[i + 1].y - PadT) = i * PlotH
                  /\ Abs(4 * canvas[c].grid[i + 1].label - canvas[c].max * (4 - i)) <= 2
            /\ Series(c) = <<Num(10), Num(20), Num(5)>> =>
                  /\ canvas[c].max = 220
                  /\ Labels(c) = <<220, 165, 110, 55, 0>>

\* The chart of the values 10, 20, 5 has been drawn.
C26_Witness ==
    /\ Series("cpu-chart") = <<Num(10), Num(20), Num(5)>>
    /\ canvas["cpu-chart"].drawn
    /\ Labels("cpu-chart") = <<220, 165, 110, 55, 0>>

\* ---------------------------------------------------------------- C27
Timestamps == Column(metrics, "timestamp")
TickHours(c) == {canvas[c].hours[k].hour : k \in 1..Len(canvas[c].hours)}
WholeHours(first, last) == {h \in first..last : h % Hour = 0}

\* C27: for a series with a non-zero time span the hour ticks drawn are
\* exactly the whole hours h with first <= h <= last; a 90-minute span from
\* a quarter past has the one tick at the next full hour.
C27_HourTicks ==
    \A c \in Charts :
        canvas[c].drawn /\ Len(metrics) > 1
                        /\ Timestamps[Len(metrics)] > Timestamps[1] =>
            LET first == Timestamps[1]
                last == Timestamps[Len(metrics)]
            IN  /\ TickHours(c) = WholeHours(first, last)
                /\ first = 1 /\ last = 7 => TickHours(c) = {Hour}

\* ---------------------------------------------------------------- C28
\* The data with every NaN or undefined entry replaced by 0.
Zeroed(data) == [i \in 1..Len(data) |-> IF data[i].kind = "number" THEN data[i] ELSE Num(0)]

\* C28: the scale of a chart is the one of its data with NaN and undefined
\* entries replaced by 0, and no point of the series line has a NaN
\* coordinate.
C28_NaNAsZero ==
    \A c \in Charts :
        canvas[c].drawn /\ Series(c) # <<>> =>
            /\ canvas[c].max = IF Largest(Zeroed(Series(c))) = 0 THEN 10
                               ELSE 11 * Largest(Zeroed(Series(c)))
            /\ \A i \in 1..Len(canvas[c].line) :
                  /\ canvas[c].line[i].x.kind = "number"
                  /\ canvas[c].line[i].y.kind = "number"

\* ---------------------------------------------------------------- C29
\* C29: a chart drawn from zero points shows the 'No data' placeholder and
\* no gridline, label, hour tick or series line; a chart drawn from data
\* shows no placeholder.
C29_NoData ==
    \A c \in Charts :
        canvas[c].drawn =>
            IF Series(c) = <<>>
            THEN /\ canvas[c].noData
                 /\ canvas[c].grid = <<>> /\ canvas[c].hours = <<>>
                 /\ canvas[c].line = <<>> /\ canvas[c].fill = <<>>
            ELSE ~canvas[c].noData

\* refreshMetrics has drawn the three charts from an empty answer.
C29_Witness ==
    /\ metrics = <<>>
    /\ \A c \in Charts : canvas[c].drawn /\ canvas[c].noData

\* ---------------------------------------------------------------- C39
\* The x of point i (from 1) of chart c is the fraction num / den.
XIs(c, i, num, den) == canvas[c].line[i].x.n * den = num * canvas[c].line[i].x.d
\* x of point i is at most x of point j
XLeq(c, i, j) ==
    canvas[c].line[i].x.n * canvas[c].line[j].x.d
        <= canvas[c].line[j].x.n * canvas[c].line[i].x.d

\* C39: in a chart drawn from n > 0 time-ordered points, with tmin and tmax
\* the first and last timestamps: if tmax > tmin, point i has
\* x = padL + (t_i - tmin) / (tmax - tmin) * plotW; if tmax = tmin, point i
\* (from 0) has x = padL + i / (n - 1) * plotW, and x = padL when n = 1;
\* every x lies in [padL, padL + plotW] and x does not decrease with i.
C39_HorizontalMapping ==
    \A c \in Charts :
        canvas[c].drawn /\ Series(c) # <<>> =>
            LET n == Len(metrics)
                tmin == Timestamps[1]
                tmax == Timestamps[n]
            IN  /\ Len(canvas[c].line) = n
                /\ \A i \in 1..n :
                      /\ canvas[c].line[i].x.kind = "number"
                      /\ canvas[c].line[i].x.d > 0
                      /\ IF tmax # tmin
                         THEN XIs(c, i, PadL * (tmax - tmin) + (Timestamps[i] - tmin) * PlotW,
                                  tmax - tmin)
                         ELSE IF n = 1 THEN XIs(c, i, PadL, 1)
                         ELSE XIs(c, i, PadL * (n - 1) + (i - 1) * PlotW, n - 1)
                      /\ canvas[c].line[i].x.n >= PadL * canvas[c].line[i].x.d
                      /\ canvas[c].line[i].x.n <= (PadL + PlotW) * canvas[c].line[i].x.d
                /\ \A i \in 1..(n - 1) : XLeq(c, i, i + 1)

\* A chart drawn from three samples at uneven times: the middle point is a
\* third of the way across the plot.
C39_Witness ==
    /\ Timestamps = <<1, 2, 4>>
    /\ canvas["cpu-chart"].drawn
    /\ XIs("cpu-chart", 2, PadL * 3 + PlotW, 3)

\* ---------------------------------------------------------------- C31
\* The requests in flight that ticks of poller k have issued.
TicksInFlight(k) ==
    BagCardinality([r \in {x \in DOMAIN inflight : TickReq(k, x)} |-> inflight[r]])
\* The response to a tick of poller k arrives and is applied.
TickApplied(k) ==
    \E r \in Pending :
        /\ TickReq(k, r)
        /\ \/ \E res \in Outcomes : refreshServiceLogsDone(r, res)
           \/ \E res \in Outcomes : loadSupervisorLogsDone(r, res)
           \/ \E res \in ScanStatus \cup {"error"} : securityTickDone(r, res)
\* The poller has no schedule before and after the step, and the step is
\* not a start that finds its live condition off.
StaysStopped(k) ==
    /\ HandleOf(k) = 0 /\ HandleOf(k)' = 0
    /\ ~(k = "supervisor-logs" /\ switchTab("logs"))

\* C31: once a poller is stopped no timer of its name is left, and until
\* its next start no step issues a tick of it; a tick issued before the
\* stop can still get its response and be applied, and each response
\* applied takes one request out of those in flight, so the renders after
\* the stop are at most the requests in flight at the stop.
C31_StopRemovesSchedule ==
    /\ [](\A k \in PollerNames : HandleOf(k) = 0 => TimersOf(k) = {})
    /\ [](\A r \in Pending :
            r.op = "refreshServiceLogs" /\ r.then = "" /\ logsInterval = 0 =>
                ENABLED refreshServiceLogsDone(r, "ok"))
    /\ [][\A k \in PollerNames :
            /\ StaysStopped(k) => TicksInFlight(k)' <= TicksInFlight(k)
            /\ TickApplied(k) => TicksInFlight(k)' = TicksInFlight(k) - 1]_vars

\* The service-logs poller was started, a tick of it is in flight, and the
\* modal has been closed since: the poller is stopped.
C31_Witness ==
    /\ logsModalHidden /\ logsInterval = 0 /\ TimersOf("service-logs") = {}
    /\ nextTimerId >= 3
    /\ TicksInFlight("service-logs") = 1

\* ---------------------------------------------------------------- C37
\* C37: in every reachable state a service-logs timer (or a handle to one)
\* exists only if #logs-live is checked, and a supervisor-logs timer only if
\* #supervisor-logs-live is checked; this covers the checkbox being cleared
\* while the initial refresh of showServiceLogs is in flight.
C37_TimerOnlyWhileLive ==
    /\ (logsInterval # 0 \/ TimersOf("service-logs") # {}) => logsLive
    /\ (supervisorLogsInterval # 0 \/ TimersOf("supervisor-logs") # {})
          => supervisorLogsLive

\* #logs-live was cleared while the initial refresh of showServiceLogs was
\* in flight: the refresh has rendered, startLogsInterval has run, and the
\* only handle ever handed out is the one of the status timer.
C37_Witness ==
    /\ loaded /\ ~logsModalHidden /\ ~logsLive
    /\ logsContent = currentService /\ currentService # ""
    /\ inflight = EmptyBag
    /\ nextTimerId = 2 /\ logsInterval = 0

\* ---------------------------------------------------------------- C32
\* C32: chatAbortController is the controller of every session that is in
\* flight and not cancelled, and the step that ends a session leaves the
\* controller of any other session in place.
C32_TokenOfSessionInFlight ==
    /\ [](\A s \in SessionIds :
            InFlight(s) /\ ~sessions[s].aborted => chatAbortController = s)
    /\ [][\A s \in SessionIds :
            InFlight(s) /\ ~InFlight(s)' /\ chatAbortController \notin {0, s} =>
                chatAbortController' = chatAbortController]_vars

\* ---------------------------------------------------------------- C33
\* C33: the chat UI is in loading state whenever a session is in flight,
\* and a step clears loading only if no session is in flight after it.
C33_LoadingMatchesSession ==
    /\ []((\E s \in SessionIds : InFlight(s)) => chatLoading)
    /\ [][chatLoading /\ ~chatLoading' => \A s \in SessionIds : ~InFlight(s)']_vars

\* ---------------------------------------------------------------- C38
\* C38: the polling of an onboard job ends only in a step that posts one
\* final chat message (job completed or failed); after every other poll,
\* a failed request included, the job is still being polled.
C38_PollsUntilTerminal ==
    [][\A o \in OnboardIds :
          onboards[o] = "poll" /\ onboards'[o] # "poll" =>
              /\ Len(messages') = Len(messages) + 1
              /\ messages'[Len(messages')].content \in {CompletedText, FailedText}]_vars

\* ---------------------------------------------------------------- C34
\* The in-progress messages that sessions now ended have left behind: no
\* session in flight has rendered anything yet.
LeftInProgress ==
    {i \in 1..Len(messages) :
        /\ messages[i].id = StreamingId
        /\ \A s \in SessionIds : InFlight(s) => sessions[s].reads = 0}
\* The place of the latest user message (0 if none).
LastUser(msgs) ==
    IF \E i \in 1..Len(msgs) : msgs[i].role = "user"
    THEN CHOOSE i \in 1..Len(msgs) :
             msgs[i].role = "user" /\ \A j \in (i + 1)..Len(msgs) : msgs[j].role # "user"
    ELSE 0

\* C34: no step changes a message that an ended session left in progress,
\* and the text a session reads is shown in a message placed after the
\* latest user message.
C34_LeftoverNotOverwritten ==
    [][/\ \A i \in LeftInProgress :
             i <= Len(messages') /\ messages'[i] = messages[i]
       /\ \A s \in SessionIds :
             sessions'[s].responseContent # sessions[s].responseContent =>
                 \E i \in (LastUser(messages') + 1)..Len(messages') :
                     messages'[i].content
                         = formatMessage(Trim(sessions'[s].responseContent))]_vars

\* ------------------------------------------------------------ security modal
\* The security modal of services.js with two services.  The server keeps
\* the status of each service's latest scan; a response reports the status
\* at the time it is handled ("noresult": completed with no result object,
\* "error": the request failed).  The text of #scan-status is kept as its
\* kind together with the service whose scan it reports.
ScanData == {"none", "running", "completed", "noresult", "failed", "error"}
Status(kind, name) == [kind |-> kind, name |-> name]

\* What the handlers of the modal read and write.
SV == [ts |-> TS, disabled |-> scanBtnDisabled, status |-> scanStatus,
       findings |-> securityFindings]
SetSV(st) ==
    /\ SetTS(st.ts)
    /\ scanBtnDisabled' = st.disabled
    /\ scanStatus' = st.status
    /\ securityFindings' = st.findings

displaySecurityResults(st, name) ==
    [st EXCEPT !.disabled = FALSE, !.status = Status("scanned", name), !.findings = name]

\* loadLatestSecurityScan(name) after its await
loadLatestSecurityScan(st, name, data) ==
    CASE data = "running" ->
           [st EXCEPT !.status = Status("progress", name), !.disabled = TRUE,
                      !.ts = startSecurityPoll(@, name)]
      [] data = "completed" -> displaySecurityResults(st, name)
      [] data = "failed" -> [st EXCEPT !.status = Status("failed", name)]
      [] OTHER -> st

\* The poll callback stopping on every completed status, result or not.
securityPollNoResultTest(st, name, data) ==
    CASE data = "completed" ->
           displaySecurityResults([st EXCEPT !.ts = stopSecurityPoll(@)], name)
      [] data = "noresult" ->
           [st EXCEPT !.ts = stopSecurityPoll(@), !.disabled = FALSE]
      [] data = "failed" ->
           [st EXCEPT !.ts = stopSecurityPoll(@), !.disabled = FALSE,
                      !.status = Status("failed", name)]
      [] OTHER -> st

\* the callback of startSecurityPoll(name) after its await
securityPoll(st, name, data) ==
    CASE data = "completed" ->
           displaySecurityResults([st EXCEPT !.ts = stopSecurityPoll(@)], name)
      [] data = "failed" ->
           [st EXCEPT !.ts = stopSecurityPoll(@), !.disabled = FALSE,
                      !.status = Status("failed", name)]
      [] OTHER -> st

ScanRoom == BagCardinality(inflight) < MaxScanCalls
notSecurity == <<callVars, streamVars, chatVars, viewVars, refreshVars, chartVars,
                 statusInterval, logsLive, supervisorLogsLive, loaded, tab,
                 logsModalHidden, logsContent, supervisorLogsContent, switchCalls>>

SecurityInit ==
    /\ DashboardIdle /\ StreamIdle /\ ChatIdle /\ PageIdle

\* showSecurityScan(name) up to its await (context menu of the services list)
securityModalOpens(name) ==
    /\ securityModalHidden /\ ScanRoom
    /\ currentService' = name
    /\ securityTitle' = name
    /\ scanStatus' = NoStatus
    /\ securityFindings' = ""
    /\ securityModalHidden' = FALSE
    /\ inflight' = Issue(inflight, Req("loadLatestSecurityScan", name, ""))
    /\ UNCHANGED <<notSecurity, timers, nextTimerId, logsInterval, supervisorLogsInterval,
                   securityPollInterval, scanBtnDisabled, scans>>

\* Escape, or a click outside the modal content: hideModal('security-modal')
securityModalCloses ==
    /\ ~securityModalHidden
    /\ securityModalHidden' = TRUE
    /\ UNCHANGED <<notSecurity, timers, nextTimerId, logsInterval, supervisorLogsInterval,
                   securityPollInterval, currentService, scanBtnDisabled, inflight,
                   securityVars>>

loadLatestSecurityScanSettles(r, ok) ==
    /\ r \in Pending /\ r.op = "loadLatestSecurityScan"
    /\ scans[r.name] = "running" /\ ok => CanSetInterval
    /\ inflight' = inflight (-) SetToBag({r})
    /\ SetSV(loadLatestSecurityScan(SV, r.name, IF ok THEN scans[r.name] ELSE "error"))
    /\ UNCHANGED <<notSecurity, securityModalHidden, currentService, securityTitle, scans>>

\* click on #scan-btn: runSecurityScan(currentService) up to its await
scanBtnClick ==
    /\ ~securityModalHidden /\ ~scanBtnDisabled /\ ScanRoom
    /\ scanBtnDisabled' = TRUE
    /\ scanStatus' = Status("starting", currentService)
    /\ securityFindings' = ""
    /\ inflight' = Issue(inflight, Req("runSecurityScan", currentService, ""))
    /\ UNCHANGED <<notSecurity, timers, nextTimerId, logsInterval, supervisorLogsInterval,
                   securityPollInterval, securityModalHidden, currentService,
                   securityTitle, scans>>

\* POST .../security-scan settles: the server has started the scan, or not.
runSecurityScanSettles(r, ok) ==
    /\ r \in Pending /\ r.op = "runSecurityScan"
    /\ ok => CanSetInterval
    /\ inflight' = inflight (-) SetToBag({r})
    /\ IF ok
       THEN /\ scans' = [scans EXCEPT ![r.name] = "running"]
            /\ SetSV([SV EXCEPT !.status = Status("progress", r.name),
                                !.ts = startSecurityPoll(@, r.name)])
       ELSE /\ UNCHANGED scans
            /\ SetSV([SV EXCEPT !.disabled = FALSE, !.status = Status("error", r.name)])
    /\ UNCHANGED <<notSecurity, securityModalHidden, currentService, securityTitle>>

\* The security-scan timer fires: its callback runs up to its await.
securityPollFires(t) ==
    /\ t \in timers /\ t.name = "security-scan" /\ ScanRoom
    /\ inflight' = Issue(inflight, Req("securityTick", t.arg, ""))
    /\ UNCHANGED <<notSecurity, timers, nextTimerId, logsInterval, supervisorLogsInterval,
                   securityPollInterval, securityModalHidden, currentService,
                   scanBtnDisabled, securityVars>>

securityPollSettles(r, ok) ==
    /\ r \in Pending /\ r.op = "securityTick"
    /\ inflight' = inflight (-) SetToBag({r})
    /\ SetSV(securityPoll(SV, r.name, IF ok THEN scans[r.name] ELSE "error"))
    /\ UNCHANGED <<notSecurity, securityModalHidden, currentService, securityTitle, scans>>

\* The server: a running scan ends.
ScanEnds(n, status) ==
    /\ scans[n] = "running"
    /\ scans' = [scans EXCEPT ![n] = status]
    /\ UNCHANGED <<timerVars, domVars, callVars, streamVars, chatVars, viewVars,
                   refreshVars, chartVars, securityTitle, scanStatus, securityFindings>>

SecurityNext ==
    \/ \E name \in ScanServices : securityModalOpens(name)
    \/ securityModalCloses
    \/ \E r \in Pending, ok \in BOOLEAN : loadLatestSecurityScanSettles(r, ok)
    \/ scanBtnClick
    \/ \E r \in Pending, ok \in BOOLEAN : runSecurityScanSettles(r, ok)
    \/ \E t \in timers : securityPollFires(t)
    \/ \E r \in Pending, ok \in BOOLEAN : securityPollSettles(r, ok)
    \/ \E n \in ScanServices, status \in {"completed", "noresult", "failed"} :
          ScanEnds(n, status)

SecuritySpec == SecurityInit /\ [][SecurityNext]_vars

\* ---------------------------------------------------------------- C35
\* A tick started for a service other than the one the modal is titled
\* with gets its response in this step.
StaleTickSettles ==
    \E r \in Pending, ok \in BOOLEAN :
        r.name # securityTitle /\ securityPollSettles(r, ok)

\* C35: the response to a tick that was started for a service other than
\* the one in the title of the security modal changes neither the findings
\* nor the status shown, leaves the scan button as it is, and does not
\* remove the timer polling for the service in the title.
C35_ViewOnlyForItsService ==
    [][StaleTickSettles =>
          /\ securityFindings' = securityFindings
          /\ scanStatus' = scanStatus
          /\ scanBtnDisabled' = scanBtnDisabled
          /\ \A t \in timers : t.arg = securityTitle => t \in timers']_vars

\* ---------------------------------------------------------------- C36
\* SecuritySpec where a timer that can fire does fire and every request
\* gets its response, the ticks a successful one.
SecurityLive ==
    /\ SecuritySpec
    /\ SF_vars(\E t \in timers : securityPollFires(t))
    /\ SF_vars(\E r \in Pending : securityPollSettles(r, TRUE))
    /\ WF_vars(\E r \in Pending, ok \in BOOLEAN : loadLatestSecurityScanSettles(r, ok))
    /\ WF_vars(\E r \in Pending, ok \in BOOLEAN : runSecurityScanSettles(r, ok))

\* A successful tick that observes the given statuses gets its response.
TickObserves(statuses) ==
    \E r \in Pending : scans[r.name] \in statuses /\ securityPollSettles(r, TRUE)
\* The service the current poller polls for, "" if there is none.
Polled ==
    IF \E t \in timers : t.id = securityPollInterval
    THEN (CHOOSE t \in timers : t.id = securityPollInterval).arg
    ELSE ""

\* C36: a tick that observes the status running leaves the poller as it
\* is; a tick that observes completed or failed stops the poller and
\* enables the scan button; and a poller whose scan has reached completed
\* or failed is eventually stopped (or replaced, or its service scanned
\* anew).
C36_PollerTerminates ==
    /\ [][TickObserves({"running"}) => UNCHANGED <<timers, securityPollInterval>>]_vars
    /\ [][TickObserves({"completed", "noresult", "failed"}) =>
            /\ securityPollInterval' = 0 /\ TimersOf("security-scan")' = {}
            /\ ~scanBtnDisabled']_vars
    /\ \A n \in ScanServices :
          (Polled = n /\ scans[n] \in {"completed", "noresult", "failed"})
              ~> (Polled # n \/ scans[n] = "running")
====
